---- MODULE Spec2Model ----
(***************************************************************************)
(* Model of the mobile UI test-automation suite: the product page object   *)
(* (title collection, comparison by index), the login/product step         *)
(* definitions with their menu fallback, and the Appium endpoint           *)
(* detection.  Texts are sequences of one-character strings so that        *)
(* strip(), lower() and rstrip("/") are computed, not assumed.             *)
(***************************************************************************)
EXTENDS Integers, Sequences, FiniteSets, TLC

(***************************************************************************)
(* Bounds of the model.                                                    *)
(***************************************************************************)
MaxMinCount == 4
MaxIndex == 2

(***************************************************************************)
(* Text primitives (Python str.strip, str.lower, str.rstrip).              *)
(***************************************************************************)
UpperChars == <<"A","B","C","D","E","F","G","H","I","J","K","L","M",
                "N","O","P","Q","R","S","T","U","V","W","X","Y","Z">>
LowerChars == <<"a","b","c","d","e","f","g","h","i","j","k","l","m",
                "n","o","p","q","r","s","t","u","v","w","x","y","z">>

IsSpace(c) == c \in {" ", "\t", "\n"}

LowerChar(c) ==
    IF \E i \in 1..Len(UpperChars) : UpperChars[i] = c
    THEN LowerChars[CHOOSE i \in 1..Len(UpperChars) : UpperChars[i] = c]
    ELSE c

Lower(t) == [i \in 1..Len(t) |-> LowerChar(t[i])]

RECURSIVE LStrip(_)
LStrip(t) == IF t # <<>> /\ IsSpace(Head(t)) THEN LStrip(Tail(t)) ELSE t

RECURSIVE RStrip(_)
RStrip(t) ==
    IF t # <<>> /\ IsSpace(t[Len(t)]) THEN RStrip(SubSeq(t, 1, Len(t) - 1)) ELSE t

Strip(t) == RStrip(LStrip(t))

(***************************************************************************)
(* Texts shown by the application under test.                              *)
(***************************************************************************)
tEmpty    == <<>>
tBlank    == <<" ">>
tProducts == <<"P","r","o","d","u","c","t","s">>
tproducts == <<"p","r","o","d","u","c","t","s">>
tproduct  == <<"p","r","o","d","u","c","t">>
ttitle    == <<"t","i","t","l","e">>
tcatalog  == <<"c","a","t","a","l","o","g">>
tTITLEsp  == <<" ","T","I","T","L","E"," ">>
tCatalog  == <<"C","a","t","a","l","o","g">>
tP1       == <<"P","1">>
tP2sp     == <<"P","2"," ">>

(***************************************************************************)
(* collect_product_titles._is_header_like                                  *)
(***************************************************************************)
HeaderLikeWords == {tEmpty, tproducts, tproduct, ttitle, tcatalog}

IsHeaderLike_NoStrip(t) ==
    IF t = <<>> THEN TRUE ELSE Lower(t) \in HeaderLikeWords

IsHeaderLike(t) ==
    IF t = <<>> THEN TRUE ELSE Lower(Strip(t)) \in HeaderLikeWords

\* appends only the titles not accumulated yet
RECURSIVE AppendVisible_Dedup(_, _)
AppendVisible_Dedup(acc, visible) ==
    IF visible = <<>> THEN acc
    ELSE IF IsHeaderLike(Head(visible))
            \/ \E i \in 1..Len(acc) : acc[i] = Head(visible)
         THEN AppendVisible_Dedup(acc, Tail(visible))
         ELSE AppendVisible_Dedup(Append(acc, Head(visible)), Tail(visible))

\* the two "for t in visible: if not _is_header_like(t): accumulated.append(t)"
AppendVisible(acc, visible) ==
    acc \o SelectSeq(visible, LAMBDA t : ~IsHeaderLike(t))

(***************************************************************************)
(* A viewport is what the driver shows at one moment:                      *)
(*   tv  - texts of the productTV elements found by ID,                    *)
(*   tv2 - texts of the productTV elements at the second lookup by ID,     *)
(*         made inside the fallback,                                       *)
(*   img - the productIV image elements, each with its own text and the    *)
(*         texts reached by the relative XPath lookups from it,            *)
(*   xp  - the texts found by each global XPath candidate, in listed order.*)
(***************************************************************************)
PlainHeaderWords == {tproducts, tproduct, tEmpty}

\* first text of a sequence whose stripped form is non-empty, stripped
RECURSIVE FirstStripped(_)
FirstStripped(ts) ==
    IF ts = <<>> THEN <<>>
    ELSE IF Strip(Head(ts)) # <<>> THEN Strip(Head(ts))
    ELSE FirstStripped(Tail(ts))

\* ProductPage._extract_title_from_image_element
ExtractTitleFromImageElement(img) ==
    IF Strip(img.text) # <<>> THEN Strip(img.text) ELSE FirstStripped(img.rel)

\* texts kept from one global XPath candidate
FoundTexts(found) ==
    SelectSeq([i \in 1..Len(found) |-> Strip(found[i])],
              LAMBDA x : x # <<>> /\ Lower(x) \notin PlainHeaderWords)

\* takes the last candidate that yields a text instead of the first
RECURSIVE FirstXPathTexts_Last(_)
FirstXPathTexts_Last(xps) ==
    IF xps = <<>> THEN <<>>
    ELSE IF FirstXPathTexts_Last(Tail(xps)) # <<>>
         THEN FirstXPathTexts_Last(Tail(xps))
         ELSE SelectSeq([i \in 1..Len(Head(xps)) |-> Strip(Head(xps)[i])],
                        LAMBDA x : x # <<>> /\ Lower(x) \notin PlainHeaderWords)

\* result of the first XPath candidate that yields any text, <<>> if none
RECURSIVE FirstXPathTexts(_)
FirstXPathTexts(xps) ==
    IF xps = <<>> THEN <<>>
    ELSE IF FoundTexts(Head(xps)) # <<>> THEN FoundTexts(Head(xps))
    ELSE FirstXPathTexts(Tail(xps))

\* get_all_product_titles._is_header
IsHeader(t) == IF t = <<>> THEN TRUE ELSE Lower(Strip(t)) \in PlainHeaderWords

\* index-based hybrid mapping of get_all_product_titles
HybridMapping(title_texts, img_elems) ==
    [i \in 1..Len(img_elems) |->
        IF i <= Len(title_texts) /\ ~IsHeader(title_texts[i])
        THEN title_texts[i]
        ELSE ExtractTitleFromImageElement(img_elems[i])]

\* ProductPage.get_all_product_titles
GetAllProductTitles(vp) ==
    LET titles == vp.tv
        header_like == Len(titles) <= 1
                       /\ \E i \in 1..Len(titles) :
                             Lower(Strip(titles[i])) \in PlainHeaderWords
        title_texts == [i \in 1..Len(vp.tv2) |-> Strip(vp.tv2[i])]
        valid_title_texts == SelectSeq(title_texts, LAMBDA t : ~IsHeader(t))
    IN  IF titles = <<>> \/ header_like
        THEN IF vp.img = <<>>
             THEN (IF header_like THEN <<>> ELSE titles)
             ELSE IF FirstXPathTexts(vp.xp) # <<>>
                  THEN FirstXPathTexts(vp.xp)
                  ELSE IF Len(valid_title_texts) >= Len(vp.img)
                       THEN SubSeq(valid_title_texts, 1, Len(vp.img))
                       ELSE HybridMapping(title_texts, vp.img)
        ELSE titles

NoImages == <<>>
NoXPath == <<>>
Image(text, rel) == [text |-> text, rel |-> rel]

\* the viewports the driver may show at a read
Viewports ==
    { [tv |-> <<tP1>>, tv2 |-> <<tP1>>, img |-> NoImages, xp |-> NoXPath],
      [tv |-> <<tP1, tP2sp>>, tv2 |-> <<tP1, tP2sp>>,
       img |-> NoImages, xp |-> NoXPath],
      [tv |-> <<tTITLEsp, tP2sp>>, tv2 |-> <<tTITLEsp, tP2sp>>,
       img |-> NoImages, xp |-> NoXPath],
      [tv |-> <<tProducts>>, tv2 |-> <<tProducts>>,
       img |-> <<Image(tEmpty, <<tBlank, tP1>>)>>,
       xp  |-> <<<<tProducts>>, <<tCatalog>>>>] }

(***************************************************************************)
(* ProductPage._scroll_forward: d tells which driver calls succeed.        *)
(***************************************************************************)
ScrollForward(d) ==
    IF d.ui THEN TRUE
    ELSE IF d.size /\ (d.swipe \/ d.drag \/ d.scroll \/ d.legacy) THEN TRUE
    ELSE d.touch

ScrollDriver(ui, size, gesture, touch) ==
    [ui |-> ui, size |-> size, swipe |-> FALSE, drag |-> gesture,
     scroll |-> FALSE, legacy |-> FALSE, touch |-> touch]

ScrollDrivers ==
    { ScrollDriver(TRUE, TRUE, TRUE, TRUE),
      ScrollDriver(FALSE, TRUE, TRUE, FALSE),
      ScrollDriver(FALSE, FALSE, TRUE, FALSE) }

(***************************************************************************)
(* State.                                                                  *)
(*  Product page object and the call in progress on it:                    *)
(*   last_collected_titles  the cache attribute (has = attribute is set)   *)
(*   pc         "idle" or "loop" (inside the scroll loop of collect)       *)
(*   caller     the public method running or last run                      *)
(*   min_count, max_scrolls, index_a, index_b   its arguments              *)
(*   accumulated, consecutive_no_new, attempt   locals of collect          *)
(*   cacheAtCall  the cache when the call started                          *)
(*   readLog    result of every get_all_product_titles of this call        *)
(*   scrollLog  result of every _scroll_forward of this call               *)
(*   addedLog   "added" of every completed loop iteration of this call     *)
(*   usedTitles the list compare_products indexed                          *)
(*   outcome    how the call ended                                         *)
(***************************************************************************)
VARIABLES last_collected_titles, pc, caller, min_count, max_scrolls,
          index_a, index_b, accumulated, consecutive_no_new, attempt,
          cacheAtCall, readLog, scrollLog, addedLog, usedTitles, outcome

pageVars == <<last_collected_titles, pc, caller, min_count, max_scrolls,
              index_a, index_b, accumulated, consecutive_no_new, attempt,
              cacheAtCall, readLog, scrollLog, addedLog, usedTitles, outcome>>

NoCache == [has |-> FALSE, titles |-> <<>>]
Cache(ts) == [has |-> TRUE, titles |-> ts]

NoRecord == [product_a |-> <<>>, product_b |-> <<>>, equal |-> FALSE]
NoOutcome == [kind |-> "none", titles |-> <<>>, count |-> 0, record |-> NoRecord]
ReturnTitles(ts) == [kind |-> "titles", titles |-> ts, count |-> 0, record |-> NoRecord]
ReturnCount(n) == [kind |-> "count", titles |-> <<>>, count |-> n, record |-> NoRecord]
ReturnRecord(r) == [kind |-> "record", titles |-> <<>>, count |-> 0, record |-> r]
RaiseIndexError == [kind |-> "IndexError", titles |-> <<>>, count |-> 0, record |-> NoRecord]

Max(x, y) == IF x >= y THEN x ELSE y

\* Python list indexing: negative indices count from the end
InRange(ts, i) == -Len(ts) <= i /\ i < Len(ts)
PyIndex(ts, i) == IF i >= 0 THEN ts[i + 1] ELSE ts[Len(ts) + i + 1]

Required_NoPlusOne(a, b) == Max(a, b)

\* compare_products: required = max(index_a, index_b) + 1
Required(a, b) == Max(a, b) + 1

CacheSufficient_Strict(cached, required) ==
    cached.has /\ Len(cached.titles) > required

\* compare_products: isinstance(cached, list) and len(cached) >= required
CacheSufficient(cached, required) == cached.has /\ Len(cached.titles) >= required

\* compares the positions instead of the titles
CompareTitles_ByIndex(titles, a, b) ==
    IF Len(titles) < Required(a, b) THEN RaiseIndexError
    ELSE IF ~InRange(titles, a) \/ ~InRange(titles, b) THEN RaiseIndexError
    ELSE ReturnRecord([product_a |-> PyIndex(titles, a),
                       product_b |-> PyIndex(titles, b),
                       equal |-> (a = b)])

\* compare_products: the part after accumulated_titles is chosen
CompareTitles(titles, a, b) ==
    IF Len(titles) < Required(a, b) THEN RaiseIndexError
    ELSE IF ~InRange(titles, a) \/ ~InRange(titles, b) THEN RaiseIndexError
    ELSE ReturnRecord([product_a |-> PyIndex(titles, a),
                       product_b |-> PyIndex(titles, b),
                       equal |-> (PyIndex(titles, a) = PyIndex(titles, b))])

CompareMaxScrolls == 8
CollectDefaultMaxScrolls == 6
EnsureDefaultMaxScrolls == 8
\* one more empty scroll tolerated
NoNewLimit_Three == 2 + 1
NoNewLimit == 2

\* what the public method that called collect_product_titles does with the
\* returned list
CallerOutcome(c, acc, a, b) ==
    CASE c = "collect" -> ReturnTitles(acc)
      [] c = "ensure"  -> ReturnCount(Len(acc))
      [] c = "compare" -> CompareTitles(acc, a, b)

\* the cache is extended instead of replaced
CollectReturns_Extends(c, acc, a, b) ==
    /\ last_collected_titles' = Cache(last_collected_titles.titles \o acc)
    /\ pc' = "idle"
    /\ usedTitles' = IF c = "compare" THEN acc ELSE <<>>
    /\ outcome' = CallerOutcome(c, acc, a, b)

\* collect_product_titles returns acc: the cache is replaced and the caller
\* finishes
CollectReturns(c, acc, a, b) ==
    /\ last_collected_titles' = Cache(acc)
    /\ pc' = "idle"
    /\ usedTitles' = IF c = "compare" THEN acc ELSE <<>>
    /\ outcome' = CallerOutcome(c, acc, a, b)

\* collect_product_titles without the test after the initial read
CollectBegin_AlwaysLoops(c, mc, ms, a, b) ==
    \E vp \in Viewports :
        LET visible == GetAllProductTitles(vp)
            acc == AppendVisible(<<>>, visible)
        IN  /\ caller' = c
            /\ min_count' = mc
            /\ max_scrolls' = ms
            /\ index_a' = a
            /\ index_b' = b
            /\ cacheAtCall' = last_collected_titles
            /\ accumulated' = acc
            /\ consecutive_no_new' = 0
            /\ attempt' = 0
            /\ readLog' = <<visible>>
            /\ scrollLog' = <<>>
            /\ addedLog' = <<>>
            /\ pc' = "loop"
            /\ outcome' = NoOutcome
            /\ usedTitles' = <<>>
            /\ UNCHANGED last_collected_titles

\* collect_product_titles up to the scroll loop: the initial viewport read
\* and the first min_count test
CollectBegin(c, mc, ms, a, b) ==
    \E vp \in Viewports :
        LET visible == GetAllProductTitles(vp)
            acc == AppendVisible(<<>>, visible)
        IN  /\ caller' = c
            /\ min_count' = mc
            /\ max_scrolls' = ms
            /\ index_a' = a
            /\ index_b' = b
            /\ cacheAtCall' = last_collected_titles
            /\ accumulated' = acc
            /\ consecutive_no_new' = 0
            /\ attempt' = 0
            /\ readLog' = <<visible>>
            /\ scrollLog' = <<>>
            /\ addedLog' = <<>>
            /\ IF Len(acc) >= mc \/ ms <= 0
               THEN CollectReturns(c, acc, a, b)
               ELSE /\ pc' = "loop"
                    /\ outcome' = NoOutcome
                    /\ usedTitles' = <<>>
                    /\ UNCHANGED last_collected_titles

MinCounts == 0..MaxMinCount
MaxScrollsChoices == {1, CollectDefaultMaxScrolls}
Indices == -1..MaxIndex

\* ProductPage.collect_product_titles called directly
CollectProductTitles ==
    /\ pc = "idle"
    /\ caller = "none"
    /\ \E mc \in MinCounts, ms \in MaxScrollsChoices :
          CollectBegin("collect", mc, ms, 0, 0)

\* ProductPage.ensure_minimum_products
EnsureMinimumProducts ==
    /\ pc = "idle"
    /\ caller = "none"
    /\ \E mc \in MinCounts :
          CollectBegin("ensure", mc, EnsureDefaultMaxScrolls, 0, 0)

\* ProductPage.compare_products answered from the cache
CompareFromCache ==
    /\ pc = "idle"
    /\ caller = "none"
    /\ \E a \in Indices, b \in Indices :
          /\ CacheSufficient(last_collected_titles, Required(a, b))
          /\ caller' = "compare"
          /\ index_a' = a
          /\ index_b' = b
          /\ min_count' = 0
          /\ max_scrolls' = 0
          /\ cacheAtCall' = last_collected_titles
          /\ accumulated' = <<>>
          /\ consecutive_no_new' = 0
          /\ attempt' = 0
          /\ readLog' = <<>>
          /\ scrollLog' = <<>>
          /\ addedLog' = <<>>
          /\ usedTitles' = last_collected_titles.titles
          /\ outcome' = CompareTitles(last_collected_titles.titles, a, b)
          /\ UNCHANGED <<last_collected_titles, pc>>

\* ProductPage.compare_products when the cache is absent or too short
CompareCollecting ==
    /\ pc = "idle"
    /\ caller = "none"
    /\ \E a \in Indices, b \in Indices :
          /\ ~CacheSufficient(last_collected_titles, Required(a, b))
          /\ CollectBegin("compare", Required(a, b), CompareMaxScrolls, a, b)

\* the scroll loop without its "if not scrolled: break"
CollectLoopIteration_NoBreak ==
    /\ pc = "loop"
    /\ \E d \in ScrollDrivers, vp \in Viewports :
        LET scrolled == ScrollForward(d)
            visible == GetAllProductTitles(vp)
            acc == AppendVisible(accumulated, visible)
            added == Len(acc) - Len(accumulated)
            no_new == IF added > 0 THEN 0 ELSE consecutive_no_new + 1
        IN  /\ scrollLog' = Append(scrollLog, scrolled)
            /\ readLog' = Append(readLog, visible)
            /\ addedLog' = Append(addedLog, added)
            /\ accumulated' = acc
            /\ consecutive_no_new' = no_new
            /\ attempt' = attempt + 1
            /\ IF \/ Len(acc) >= min_count
                  \/ no_new >= NoNewLimit
                  \/ attempt + 1 >= max_scrolls
               THEN CollectReturns(caller, acc, index_a, index_b)
               ELSE UNCHANGED <<pc, last_collected_titles, usedTitles,
                                outcome>>
    /\ UNCHANGED <<caller, min_count, max_scrolls, index_a, index_b, cacheAtCall>>

\* one pass of "for attempt in range(max_scrolls)"
CollectLoopIteration ==
    /\ pc = "loop"
    /\ \E d \in ScrollDrivers, vp \in Viewports :
        LET scrolled == ScrollForward(d)
            visible == GetAllProductTitles(vp)
            acc == AppendVisible(accumulated, visible)
            added == Len(acc) - Len(accumulated)
            no_new == IF added > 0 THEN 0 ELSE consecutive_no_new + 1
        IN  /\ scrollLog' = Append(scrollLog, scrolled)
            /\ IF ~scrolled
               THEN /\ CollectReturns(caller, accumulated, index_a, index_b)
                    /\ UNCHANGED <<accumulated, consecutive_no_new, attempt,
                                   readLog, addedLog>>
               ELSE /\ readLog' = Append(readLog, visible)
                    /\ addedLog' = Append(addedLog, added)
                    /\ accumulated' = acc
                    /\ consecutive_no_new' = no_new
                    /\ attempt' = attempt + 1
                    /\ IF \/ Len(acc) >= min_count
                          \/ no_new >= NoNewLimit
                          \/ attempt + 1 >= max_scrolls
                       THEN CollectReturns(caller, acc, index_a, index_b)
                       ELSE UNCHANGED <<pc, last_collected_titles, usedTitles,
                                        outcome>>
    /\ UNCHANGED <<caller, min_count, max_scrolls, index_a, index_b, cacheAtCall>>

\* the cache a page object may hold when a call starts: none right after
\* construction, or a list left by an earlier collect_product_titles
InitCaches ==
    { NoCache, Cache(<<>>), Cache(<<tP1, tP1>>), Cache(<<tP1, tP2sp, tP1>>) }

PageInit ==
    /\ last_collected_titles \in InitCaches
    /\ pc = "idle"
    /\ caller = "none"
    /\ min_count = 0
    /\ max_scrolls = 0
    /\ index_a = 0
    /\ index_b = 0
    /\ accumulated = <<>>
    /\ consecutive_no_new = 0
    /\ attempt = 0
    /\ cacheAtCall = NoCache
    /\ readLog = <<>>
    /\ scrollLog = <<>>
    /\ addedLog = <<>>
    /\ usedTitles = <<>>
    /\ outcome = NoOutcome

(***************************************************************************)
(* Step definitions that log in (login_steps.step_enter_credentials,       *)
(* product_steps.step_logged_in).                                          *)
(*   hasLoginPage  context has the attribute login_page                    *)
(*   stepName      the step running or last run                            *)
(*   stepPhase     "idle", "direct", "fallback" or "done"                  *)
(*   stepPos       position in the call sequence of the phase              *)
(*   usuario, senha  the step's arguments                                  *)
(*   pageCalls     the calls the step made on context.login_page, each     *)
(*                 with its arguments and how it ended                     *)
(*   stepResult    "ok" or the exception the step propagated               *)
(***************************************************************************)
VARIABLES hasLoginPage, stepName, stepPhase, stepPos, usuario, senha,
          pageCalls, stepResult

stepVars == <<hasLoginPage, stepName, stepPhase, stepPos, usuario, senha,
              pageCalls, stepResult>>

Users == {"bob@example.com", "alice@example.com"}
Passwords == {"10203040", "wrong"}

\* how a call on the page object may end
PageOutcomes == {"ok", "TimeoutException", "WebDriverException"}

\* LoginPage.login: enter_username, enter_password, tap_login in sequence
LoginOutcome(ou, op, ot) ==
    IF ou # "ok" THEN ou ELSE IF op # "ok" THEN op ELSE ot

\* LoginPage.login_via_menu: open_menu, open_login_from_menu, login
LoginViaMenuOutcome(om, oi, ol) ==
    IF om # "ok" THEN om ELSE IF oi # "ok" THEN oi ELSE ol

LoginOutcomes ==
    { LoginOutcome(ou, op, ot) : ou \in PageOutcomes, op \in PageOutcomes,
                                 ot \in PageOutcomes }

OutcomesOf(m) ==
    CASE m = "login" -> LoginOutcomes
      [] m = "login_via_menu" ->
            { LoginViaMenuOutcome(om, oi, ol) :
                 om \in PageOutcomes, oi \in PageOutcomes, ol \in LoginOutcomes }
      [] OTHER -> PageOutcomes

\* the arguments a step passes to a page method
ArgsOf(m, u, s) ==
    CASE m = "enter_username" -> <<u>>
      [] m = "enter_password" -> <<s>>
      [] m = "login" -> <<u, s>>
      [] m = "login_via_menu" -> <<u, s>>
      [] OTHER -> <<>>

\* step_enter_credentials: the optimistic attempt
EnterCredentialsDirect == <<"enter_username", "enter_password">>

EnterCredentialsFallback_WithTap ==
    <<"open_menu", "open_login_from_menu", "enter_username", "enter_password",
      "tap_login">>

\* step_enter_credentials: the calls of the "except TimeoutException" branch
EnterCredentialsFallback ==
    <<"open_menu", "open_login_from_menu", "enter_username", "enter_password">>

\* step_logged_in: the optimistic attempt and the fallback
LoggedInDirect == <<"login">>
LoggedInFallback == <<"login_via_menu">>

DirectCalls(step) ==
    IF step = "enter_credentials" THEN EnterCredentialsDirect ELSE LoggedInDirect

FallbackCalls(step) ==
    IF step = "enter_credentials" THEN EnterCredentialsFallback
    ELSE LoggedInFallback

TriggersFallback_AnyException(o) == o # "ok"

\* "except TimeoutException" of both steps
TriggersFallback(o) == o = "TimeoutException"

Call(m, args, out) == [method |-> m, args |-> args, out |-> out]

\* behave runs step_enter_credentials: with no login_page in the context the
\* first attribute access raises AttributeError
StepEnterCredentials ==
    /\ stepPhase \in {"idle", "done"}
    /\ \E u \in Users, s \in Passwords :
          /\ usuario' = u
          /\ senha' = s
    /\ stepName' = "enter_credentials"
    /\ pageCalls' = <<>>
    /\ stepPos' = 1
    /\ IF hasLoginPage
       THEN stepPhase' = "direct" /\ stepResult' = "none"
       ELSE stepPhase' = "done" /\ stepResult' = "AttributeError"
    /\ UNCHANGED hasLoginPage

\* behave runs step_logged_in: RuntimeError when context has no login_page
StepLoggedIn ==
    /\ stepPhase \in {"idle", "done"}
    /\ \E u \in Users, s \in Passwords :
          /\ usuario' = u
          /\ senha' = s
    /\ stepName' = "logged_in"
    /\ pageCalls' = <<>>
    /\ stepPos' = 1
    /\ IF hasLoginPage
       THEN stepPhase' = "direct" /\ stepResult' = "none"
       ELSE stepPhase' = "done" /\ stepResult' = "RuntimeError"
    /\ UNCHANGED hasLoginPage

\* the next call of the try block
StepDirectCall ==
    /\ stepPhase = "direct"
    /\ LET m == DirectCalls(stepName)[stepPos]
       IN  \E o \in OutcomesOf(m) :
              /\ pageCalls' = Append(pageCalls, Call(m, ArgsOf(m, usuario, senha), o))
              /\ IF o = "ok"
                 THEN IF stepPos = Len(DirectCalls(stepName))
                      THEN /\ stepPhase' = "done"
                           /\ stepResult' = "ok"
                           /\ stepPos' = stepPos
                      ELSE /\ stepPos' = stepPos + 1
                           /\ UNCHANGED <<stepPhase, stepResult>>
                 ELSE IF TriggersFallback(o)
                      THEN /\ stepPhase' = "fallback"
                           /\ stepPos' = 1
                           /\ UNCHANGED stepResult
                      ELSE /\ stepPhase' = "done"
                           /\ stepResult' = o
                           /\ stepPos' = stepPos
    /\ UNCHANGED <<hasLoginPage, stepName, usuario, senha>>

\* the next call of the except TimeoutException block; whatever it raises is
\* re-raised
StepFallbackCall ==
    /\ stepPhase = "fallback"
    /\ LET m == FallbackCalls(stepName)[stepPos]
       IN  \E o \in OutcomesOf(m) :
              /\ pageCalls' = Append(pageCalls, Call(m, ArgsOf(m, usuario, senha), o))
              /\ IF o = "ok"
                 THEN IF stepPos = Len(FallbackCalls(stepName))
                      THEN /\ stepPhase' = "done"
                           /\ stepResult' = "ok"
                           /\ stepPos' = stepPos
                      ELSE /\ stepPos' = stepPos + 1
                           /\ UNCHANGED <<stepPhase, stepResult>>
                 ELSE /\ stepPhase' = "done"
                      /\ stepResult' = o
                      /\ stepPos' = stepPos
    /\ UNCHANGED <<hasLoginPage, stepName, usuario, senha>>

StepsIdle ==
    /\ stepName = "none"
    /\ stepPhase = "idle"
    /\ stepPos = 1
    /\ usuario = ""
    /\ senha = ""
    /\ pageCalls = <<>>
    /\ stepResult = "none"

StepsInit == hasLoginPage \in BOOLEAN /\ StepsIdle

(***************************************************************************)
(* login_steps._detect_appium_endpoint.                                    *)
(*   base_url     the argument                                             *)
(*   server       what GET <host>/status and GET <host>/wd/hub/status do   *)
(*   detPc        "idle", "probing" or "done"                              *)
(*   candidate    index of the candidate being probed                      *)
(*   probes       the status URLs requested so far                         *)
(*   detResult    the value returned, or the exception raised              *)
(***************************************************************************)
VARIABLES base_url, server, detPc, candidate, probes, detResult

detectVars == <<base_url, server, detPc, candidate, probes, detResult>>

MaxTrailingSlashes == 2

Host == <<"h","t","t","p",":","/","/","a",":","4","7","2","3">>
WdHub == <<"/","w","d","/","h","u","b">>
StatusPath == <<"/","s","t","a","t","u","s">>

RECURSIVE Slashes(_)
Slashes(n) == IF n = 0 THEN <<>> ELSE <<"/">> \o Slashes(n - 1)

BaseUrls == { Host \o Slashes(n) : n \in 0..MaxTrailingSlashes }

\* str.rstrip("/")
RECURSIVE RStripSlash(_)
RStripSlash(t) ==
    IF t # <<>> /\ t[Len(t)] = "/" THEN RStripSlash(SubSeq(t, 1, Len(t) - 1))
    ELSE t

\* candidates = [f"{base}", f"{base}/wd/hub"]
Candidates(base) == <<base, base \o WdHub>>

Status(code) == [raised |-> "", status_code |-> code]
Raised(exc) == [raised |-> exc, status_code |-> 0]

ProbeOutcomes ==
    { Status(200), Status(404), Raised("ConnectionError"), Raised("Timeout") }

\* requests.get(url): the server answers on its two status paths only
RequestsGet(srv, url) ==
    IF url = Host \o StatusPath THEN srv.root
    ELSE IF url = Host \o WdHub \o StatusPath THEN srv.hub
    ELSE Status(404)

CaughtByDetect_ConnectionOnly(exc) == exc = "ConnectionError"

\* "except Exception" around the probe
CaughtByDetect(exc) == TRUE

NoDetResult == [kind |-> "none", value |-> <<>>]

\* _detect_appium_endpoint is called
DetectAppiumEndpoint ==
    /\ detPc = "idle"
    /\ detPc' = "probing"
    /\ candidate' = 1
    /\ UNCHANGED <<base_url, server, probes, detResult>>

\* one pass of "for candidate in candidates", and the return after the loop
DetectProbe ==
    /\ detPc = "probing"
    /\ LET base == RStripSlash(base_url)
           cand == Candidates(base)[candidate]
           status_url == cand \o StatusPath
           resp == RequestsGet(server, status_url)
       IN  /\ probes' = Append(probes, status_url)
           /\ IF resp.raised # "" /\ ~CaughtByDetect(resp.raised)
              THEN /\ detPc' = "done"
                   /\ detResult' = [kind |-> "raise", value |-> <<>>]
                   /\ UNCHANGED candidate
              ELSE IF resp.raised = "" /\ resp.status_code = 200
              THEN /\ detPc' = "done"
                   /\ detResult' = [kind |-> "return", value |-> cand]
                   /\ UNCHANGED candidate
              ELSE IF candidate < Len(Candidates(base))
              THEN /\ candidate' = candidate + 1
                   /\ UNCHANGED <<detPc, detResult>>
              ELSE /\ detPc' = "done"
                   /\ detResult' = [kind |-> "return", value |-> base]
                   /\ UNCHANGED candidate
    /\ UNCHANGED <<base_url, server>>

DetectIdle ==
    /\ base_url = Host
    /\ server = [root |-> Status(200), hub |-> Status(404)]
    /\ detPc = "idle"
    /\ candidate = 1
    /\ probes = <<>>
    /\ detResult = NoDetResult

DetectInit ==
    /\ base_url \in BaseUrls
    /\ server \in [root : ProbeOutcomes, hub : ProbeOutcomes]
    /\ detPc = "idle"
    /\ candidate = 1
    /\ probes = <<>>
    /\ detResult = NoDetResult

(***************************************************************************)
(* login_steps.step_open_app, android_env_check.check_android_environment  *)
(* and environment.after_scenario.                                         *)
(*   android_sdk_root, android_home  the two environment variables ("" =   *)
(*                 unset)                                                  *)
(*   dirs          the directories that exist on disk                      *)
(*   adb           what shutil.which("adb") finds and how running it ends  *)
(*   ctxDriver     context.driver: "absent", "None" or a session           *)
(*   loginPageDriver  the driver wrapped by context.login_page             *)
(*   openPc        "idle", "detecting" or "done"                           *)
(*   envResult     what check_android_environment returned to the step     *)
(*   remoteCalls   command_executor of every webdriver.Remote call         *)
(*   openResult    "ok" or the exception step_open_app raised              *)
(*   quitLog     outcome of every driver.quit() made by after_scenario    *)
(*   hookResult    "none", "returned" or the exception after_scenario let  *)
(*                 through                                                 *)
(***************************************************************************)
VARIABLES android_sdk_root, android_home, dirs, adb, ctxDriver,
          loginPageDriver, openPc, envResult, remoteCalls, openResult,
          quitLog, hookResult

openVars == <<android_sdk_root, android_home, dirs, adb, ctxDriver,
              loginPageDriver, openPc, envResult, remoteCalls, openResult,
              quitLog, hookResult>>

SdkRootValues == {"", "/sdk"}
AndroidHomeValues == {"", "/opt/android"}
Directories == {"/sdk", "/opt/android"}
AdbPath == "/usr/bin/adb"
AdbStates ==
    { [path |-> "", run |-> "none"],
      [path |-> AdbPath, run |-> "ok"],
      [path |-> AdbPath, run |-> "raises"] }

SdkRootOf_HomeFirst(sdk, home) == IF home # "" THEN home ELSE sdk

\* sdk_root = info["android_sdk_root"] or info["android_home"]
SdkRootOf(sdk, home) == IF sdk # "" THEN sdk ELSE home

\* the notes check_android_environment accumulates
SdkNote(sdk_root, existing) ==
    IF sdk_root = "" THEN "no_variable"
    ELSE IF sdk_root \notin existing THEN "sdk_missing" ELSE "sdk_found"

AdbNote(a) ==
    IF a.path = "" THEN "adb_not_found"
    ELSE IF a.run = "ok" THEN "adb_found" ELSE "adb_version_error"

\* android_env_check.check_android_environment
CheckAndroidEnvironment(sdk, home, existing, a) ==
    LET sdk_root == SdkRootOf(sdk, home)
    IN  [ok |-> (sdk_root # "" /\ sdk_root \in existing /\ a.path # ""),
         sdk_root |-> sdk_root,
         adb_path |-> a.path,
         notes |-> <<SdkNote(sdk_root, existing), AdbNote(a)>>]

NoEnvResult == [ok |-> FALSE, sdk_root |-> "", adb_path |-> "", notes |-> <<>>]

Session == "session"
RemoteOutcomes == {"ok", "WebDriverException"}

EnvironmentUsable_Always(r) == TRUE

\* step_open_app: "ok, info = check_android_environment(); if not ok: raise"
EnvironmentUsable(r) == r.ok

\* step_open_app up to the endpoint detection: the environment check and
\* the RuntimeError when it fails
StepOpenApp ==
    /\ openPc = "idle"
    /\ hookResult = "none"
    /\ LET r == CheckAndroidEnvironment(android_sdk_root, android_home, dirs, adb)
       IN  /\ envResult' = r
           /\ IF ~EnvironmentUsable(r)
              THEN /\ openPc' = "done"
                   /\ openResult' = "RuntimeError"
                   /\ UNCHANGED <<detPc, candidate>>
              ELSE /\ openPc' = "detecting"
                   /\ openResult' = "none"
                   /\ detPc' = "probing"
                   /\ candidate' = 1
    /\ UNCHANGED <<android_sdk_root, android_home, dirs, adb, ctxDriver,
                   loginPageDriver, remoteCalls, quitLog, hookResult,
                   base_url, server, probes, detResult, hasLoginPage>>

\* step_open_app after the detection: webdriver.Remote and LoginPage
StepOpenAppSession ==
    /\ openPc = "detecting"
    /\ detPc = "done"
    /\ remoteCalls' = Append(remoteCalls, detResult.value)
    /\ openPc' = "done"
    /\ \E o \in RemoteOutcomes :
          IF o = "ok"
          THEN /\ ctxDriver' = Session
               /\ hasLoginPage' = TRUE
               /\ loginPageDriver' = Session
               /\ openResult' = "ok"
          ELSE /\ openResult' = o
               /\ UNCHANGED <<ctxDriver, hasLoginPage, loginPageDriver>>
    /\ UNCHANGED <<android_sdk_root, android_home, dirs, adb, envResult,
                   quitLog, hookResult, detectVars>>

QuitOutcomes == {"ok", "WebDriverException"}

\* after_scenario: hasattr(context, "driver") and context.driver
QuitsDriver(d) == d # "absent" /\ d # "None"

HookSwallows_Nothing(o) == FALSE

\* after_scenario: "except Exception: pass" around quit()
HookSwallows(o) == TRUE

\* environment.after_scenario, run once the scenario's steps are over
AfterScenario ==
    /\ openPc \in {"idle", "done"}
    /\ hookResult = "none"
    /\ IF QuitsDriver(ctxDriver)
       THEN /\ \E o \in QuitOutcomes :
                  /\ quitLog' = Append(quitLog, o)
                  /\ hookResult' = IF o = "ok" \/ HookSwallows(o)
                                THEN "returned" ELSE o
       ELSE /\ hookResult' = "returned"
            /\ UNCHANGED quitLog
    /\ UNCHANGED <<android_sdk_root, android_home, dirs, adb, ctxDriver,
                   loginPageDriver, openPc, envResult, remoteCalls,
                   openResult, detectVars, hasLoginPage>>

OpenIdle ==
    /\ android_sdk_root = ""
    /\ android_home = ""
    /\ dirs = {}
    /\ adb = [path |-> "", run |-> "none"]
    /\ ctxDriver = "absent"
    /\ loginPageDriver = "absent"
    /\ openPc = "idle"
    /\ envResult = NoEnvResult
    /\ remoteCalls = <<>>
    /\ openResult = "none"
    /\ quitLog = <<>>
    /\ hookResult = "none"

\* a scenario starts: any environment, no session yet
OpenInit ==
    /\ android_sdk_root \in SdkRootValues
    /\ android_home \in AndroidHomeValues
    /\ dirs \in SUBSET Directories
    /\ adb \in AdbStates
    /\ ctxDriver \in {"absent", "None"}
    /\ loginPageDriver = "absent"
    /\ openPc = "idle"
    /\ envResult = NoEnvResult
    /\ remoteCalls = <<>>
    /\ openResult = "none"
    /\ quitLog = <<>>
    /\ hookResult = "none"

(***************************************************************************)
(* A call of a public method of LoginPage.                                 *)
(*   lpMethod    the method called from outside ("none": no such call)     *)
(*   lpPos       position in the method's sequence of page primitives      *)
(*   lpLog       driver interactions of the primitives other than          *)
(*               tap_login, each tagged with its primitive                 *)
(*   lpCaptures  prefix of every _capture_debug_artifacts of the call      *)
(*   lpResult    "returned" or the exception that reached the caller       *)
(***************************************************************************)
VARIABLES lpMethod, lpPos, lpLog, lpCaptures, lpResult

lpVars == <<lpMethod, lpPos, lpLog, lpCaptures, lpResult>>

LoginPlan_TapFirst == <<"tap_login", "enter_username", "enter_password">>

\* login: enter_username, enter_password, tap_login
LoginPlan == <<"enter_username", "enter_password", "tap_login">>

\* the primitives a public method runs, in order
Plan(m) ==
    CASE m = "login" -> LoginPlan
      [] m = "login_via_menu" -> <<"open_menu", "open_login_from_menu">> \o LoginPlan
      [] OTHER -> <<m>>

\* tap_login runs when called from outside or when login reaches it
TapLoginDue ==
    \/ lpMethod = "none"
    \/ /\ lpResult = "none"
       /\ Plan(lpMethod)[lpPos] = "tap_login"

(***************************************************************************)
(* LoginPage.tap_login.                                                    *)
(*   default_wait_seconds  the page object's default timeout               *)
(*   tapPc        "idle", "click1", "hide", "scroll", "wait2", "click2",    *)
(*                "done"                                                   *)
(*   already_captured  the flag tap_login keeps about earlier captures     *)
(*   tapLog       the driver interactions of the call, in order            *)
(*   captures     prefix of every _capture_debug_artifacts of the call     *)
(*   tapResult    "returned" or the exception tap_login raised             *)
(***************************************************************************)
VARIABLES default_wait_seconds, tapPc, already_captured, tapLog, captures,
          tapResult

tapVars == <<default_wait_seconds, tapPc, already_captured, tapLog, captures,
             tapResult>>

DefaultWaitChoices == {10, 3, 1}
RecoveryWaitSeconds == 5

WaitOutcomes == {"ok", "TimeoutException"}
ClickOutcomes == {"ok", "TimeoutException", "WebDriverException"}
HideKeyboardOutcomes == {"ok", "WebDriverException"}
ScrollOutcomes == {"found", "None", "NoSuchElementException"}

Event(op, arg, out) == [op |-> op, arg |-> arg, out |-> out]

ScrollFound_Always(o) == TRUE

\* _scroll_to_element_by_id: True only when find_element returned an element
ScrollFound(o) == o = "found"

\* _wait_for_clickable captures on timeout and marks the exception
WaitCapture == "clickable_loginBtn"
TapFailedCapture == "tap_failed_loginBtn"

\* the end of tap_login's except block: capture unless already captured,
\* then raise TimeoutException
TapGivesUp(caps, already) ==
    /\ captures' = IF already THEN caps ELSE Append(caps, TapFailedCapture)
    /\ tapResult' = "TimeoutException"
    /\ tapPc' = "done"

\* tap_login is called: the first _wait_for_clickable(LOGIN_BUTTON)
TapLogin ==
    /\ tapPc = "idle"
    /\ TapLoginDue
    /\ \E o \in WaitOutcomes :
          /\ tapLog' = <<Event("wait", default_wait_seconds, o)>>
          /\ IF o = "ok"
             THEN /\ tapPc' = "click1"
                  /\ captures' = <<>>
                  /\ already_captured' = FALSE
             ELSE /\ tapPc' = "hide"
                  /\ captures' = <<WaitCapture>>
                  /\ already_captured' = TRUE
    /\ tapResult' = "none"
    /\ UNCHANGED default_wait_seconds

\* btn.click() of the direct attempt or of the retry
TapClick ==
    /\ tapPc \in {"click1", "click2"}
    /\ \E o \in ClickOutcomes :
          /\ tapLog' = Append(tapLog, Event("click", 0, o))
          /\ CASE o = "ok" ->
                    /\ tapPc' = "done"
                    /\ tapResult' = "returned"
                    /\ UNCHANGED <<captures, already_captured>>
               [] o = "TimeoutException" /\ tapPc = "click1" ->
                    /\ tapPc' = "hide"
                    /\ already_captured' = FALSE
                    /\ UNCHANGED <<captures, tapResult>>
               [] o = "TimeoutException" /\ tapPc = "click2" ->
                    /\ TapGivesUp(captures, already_captured)
                    /\ UNCHANGED already_captured
               [] OTHER ->
                    /\ tapPc' = "done"
                    /\ tapResult' = o
                    /\ UNCHANGED <<captures, already_captured>>
    /\ UNCHANGED default_wait_seconds

\* _hide_keyboard_safe: failures of driver.hide_keyboard are swallowed
TapHideKeyboard ==
    /\ tapPc = "hide"
    /\ \E o \in HideKeyboardOutcomes :
          tapLog' = Append(tapLog, Event("hide_keyboard", 0, o))
    /\ tapPc' = "scroll"
    /\ UNCHANGED <<default_wait_seconds, already_captured, captures, tapResult>>

\* _scroll_to_element_by_id(resource_id) and the "if found" test
TapScroll ==
    /\ tapPc = "scroll"
    /\ \E o \in ScrollOutcomes :
          /\ tapLog' = Append(tapLog, Event("scroll", 0, o))
          /\ IF ScrollFound(o)
             THEN /\ tapPc' = "wait2"
                  /\ UNCHANGED <<captures, tapResult>>
             ELSE TapGivesUp(captures, already_captured)
    /\ UNCHANGED <<default_wait_seconds, already_captured>>

\* the retry: _wait_for_clickable(LOGIN_BUTTON, timeout=5)
TapSecondWait ==
    /\ tapPc = "wait2"
    /\ \E o \in WaitOutcomes :
          /\ tapLog' = Append(tapLog, Event("wait", RecoveryWaitSeconds, o))
          /\ IF o = "ok"
             THEN /\ tapPc' = "click2"
                  /\ UNCHANGED <<captures, already_captured, tapResult>>
             ELSE /\ already_captured' = TRUE
                  /\ TapGivesUp(Append(captures, WaitCapture), TRUE)
    /\ UNCHANGED default_wait_seconds

TapIdle ==
    /\ default_wait_seconds = 10
    /\ tapPc = "idle"
    /\ already_captured = FALSE
    /\ tapLog = <<>>
    /\ captures = <<>>
    /\ tapResult = "none"

TapInit ==
    /\ default_wait_seconds \in DefaultWaitChoices
    /\ tapPc = "idle"
    /\ already_captured = FALSE
    /\ tapLog = <<>>
    /\ captures = <<>>
    /\ tapResult = "none"

(***************************************************************************)
(* product_steps.step_compare_products.                                    *)
(*   product_page  what context.product_page is: the real ProductPage or   *)
(*                 a test double with some of the methods                  *)
(*   i1, i2        the step's 1-based arguments                            *)
(*   cmpPc         "idle", "ensuring", "reading", "delegating",            *)
(*                 "comparing" or "done"                                   *)
(*   ensureReturn  what ensure_minimum_products returned (-1: nothing yet) *)
(*   titles        what the step got from get_all_product_titles           *)
(*   captureLog    every _capture_debug_artifacts call of the step         *)
(*   compareCalls  arguments of every compare_products call of the step    *)
(*   compareReturned  how the compare_products call ended                  *)
(*   compare_result  context.compare_result (has = attribute is set)       *)
(*   cmpResult     "returned" or the exception the step propagated         *)
(***************************************************************************)
VARIABLES product_page, i1, i2, cmpPc, ensureReturn, titles, captureLog,
          compareCalls, compareReturned, compare_result, cmpResult

cmpVars == <<product_page, i1, i2, cmpPc, ensureReturn, titles, captureLog,
             compareCalls, compareReturned, compare_result, cmpResult>>

PageObject(kind, mock, e, g, c, k) ==
    [kind |-> kind, mock |-> mock, ensure_minimum_products |-> e,
     get_all_product_titles |-> g, compare_products |-> c,
     capture |-> k]

\* the page object of pages/product_page.py
RealPage == PageObject("ProductPage", FALSE, TRUE, TRUE, TRUE, TRUE)

\* a unittest.mock.Mock answers hasattr with True for every name
MockPage == PageObject("double", TRUE, TRUE, TRUE, TRUE, TRUE)

\* plain objects carrying any subset of the four methods
PlainDoubles ==
    { PageObject("double", FALSE, e, g, c, k) : e, g, c, k \in BOOLEAN }

ProductPages == {RealPage, MockPage} \cup PlainDoubles

FeatureIndices == 1..(MaxIndex + 1)

StepEnsureMaxScrolls == 6

RECURSIVE TitlesOfLen(_)
TitlesOfLen(n) == IF n = 0 THEN <<>> ELSE Append(TitlesOfLen(n - 1), tP1)

Sized(ts) == [valid |-> TRUE, titles |-> ts]
Unsized == [valid |-> FALSE, titles |-> <<>>]

\* what a double's get_all_product_titles may do: return a list, raise, or
\* return an object without len()
DoubleGetAll == { [kind |-> "list", titles |-> TitlesOfLen(n)] : n \in 0..(MaxIndex + 1) }
                \cup { [kind |-> "raises", titles |-> <<>>],
                       [kind |-> "unsized", titles |-> <<>>] }

\* titles as the step holds them after the two try blocks
TitlesHeld(r) == IF r.kind = "list" THEN Sized(r.titles)
                 ELSE IF r.kind = "raises" THEN Sized(<<>>)
                 ELSE Unsized

DoubleEnsure == {"ok", "raises"}
CaptureOutcomes == {"ok", "raises"}

DoubleCompare ==
    { ReturnRecord([product_a |-> tP1, product_b |-> tP2sp, equal |-> FALSE]),
      ReturnRecord([product_a |-> tP1, product_b |-> tP1, equal |-> TRUE]),
      RaiseIndexError }

NoCompareResult == [has |-> FALSE, value |-> NoRecord]

HasCallable(p, m) ==
    CASE m = "ensure_minimum_products" -> p.ensure_minimum_products
      [] m = "get_all_product_titles"  -> p.get_all_product_titles
      [] m = "compare_products"        -> p.compare_products
      [] m = "_capture_debug_artifacts" -> p.capture

\* has_ensure and has_get_all
RobustFlow(p) ==
    HasCallable(p, "ensure_minimum_products") /\ HasCallable(p, "get_all_product_titles")

\* required_count = max(i1, i2)
RequiredCount(a, b) == Max(a, b)

Insufficient_Never(visible_count, required_count) == FALSE

\* visible_count < required_count
Insufficient(visible_count, required_count) == visible_count < required_count

IndexOf_OneBased(i) == i

\* idx_a = i1 - 1, idx_b = i2 - 1
IndexOf(i) == i - 1

\* try: if hasattr(page, "_capture_debug_artifacts"): page._capture...(prefix)
\* except Exception: pass
CaptureIfPresent(p, prefix) ==
    IF HasCallable(p, "_capture_debug_artifacts")
    THEN \E o \in CaptureOutcomes :
            captureLog' = Append(captureLog, [prefix |-> prefix, out |-> o])
    ELSE UNCHANGED captureLog

StepRaises(exc) ==
    /\ cmpPc' = "done"
    /\ cmpResult' = exc

\* the two places that delegate after a test of hasattr(compare_products)
DelegateOrSetupError(p) ==
    IF HasCallable(p, "compare_products")
    THEN /\ cmpPc' = "delegating"
         /\ UNCHANGED cmpResult
    ELSE StepRaises("RuntimeError")

\* the step is called: index conversion, the duck-typing tests and, in the
\* robust flow, the call of ensure_minimum_products
StepCompareProducts ==
    /\ cmpPc = "idle"
    /\ \E p \in ProductPages, a \in FeatureIndices, b \in FeatureIndices :
          /\ product_page' = p
          /\ i1' = a
          /\ i2' = b
          /\ IF RobustFlow(p)
             THEN /\ cmpPc' = "ensuring"
                  /\ UNCHANGED cmpResult
                  /\ IF p.kind = "ProductPage"
                     THEN CollectBegin("ensure", RequiredCount(a, b),
                                       StepEnsureMaxScrolls, 0, 0)
                     ELSE UNCHANGED pageVars
             ELSE /\ DelegateOrSetupError(p)
                  /\ UNCHANGED pageVars
    /\ UNCHANGED <<ensureReturn, titles, captureLog, compareCalls,
                   compareReturned, compare_result>>

\* ensure_minimum_products returns or raises
StepEnsureReturns ==
    /\ cmpPc = "ensuring"
    /\ IF product_page.kind = "ProductPage"
       THEN /\ pc = "idle"
            /\ ensureReturn' = outcome.count
            /\ cmpPc' = "reading"
            /\ UNCHANGED <<captureLog, cmpResult>>
       ELSE \E o \in DoubleEnsure, n \in 0..(MaxIndex + 1) :
               IF o = "ok"
               THEN /\ ensureReturn' = n
                    /\ cmpPc' = "reading"
                    /\ UNCHANGED <<captureLog, cmpResult>>
               ELSE /\ n = 0
                    /\ CaptureIfPresent(product_page, "ensure_minimum_products_error")
                    /\ StepRaises("Exception")
                    /\ UNCHANGED ensureReturn
    /\ UNCHANGED <<pageVars, product_page, i1, i2, titles, compareCalls,
                   compareReturned, compare_result>>

\* titles = get_all_product_titles(), the len() test and the count test.
\* The real page reads the screen the last read of ensure saw: nothing
\* scrolled in between.
StepReadTitles ==
    /\ cmpPc = "reading"
    /\ \E r \in IF product_page.kind = "ProductPage"
                THEN { [kind |-> "list", titles |-> readLog[Len(readLog)]] }
                ELSE DoubleGetAll :
        LET held == TitlesHeld(r)
            required_count == RequiredCount(i1, i2)
        IN  /\ titles' = held
            /\ IF ~held.valid /\ product_page.mock
               THEN /\ DelegateOrSetupError(product_page)
                    /\ UNCHANGED captureLog
               ELSE IF ~held.valid
               THEN /\ CaptureIfPresent(product_page, "compare_products_invalid_getall_return")
                    /\ StepRaises("RuntimeError")
               ELSE IF Insufficient(Len(held.titles), required_count)
               THEN /\ CaptureIfPresent(product_page, "compare_products_insufficient")
                    /\ StepRaises("AssertionError")
               ELSE /\ cmpPc' = "delegating"
                    /\ UNCHANGED <<captureLog, cmpResult>>
    /\ UNCHANGED <<pageVars, product_page, i1, i2, ensureReturn, compareCalls,
                   compareReturned, compare_result>>

\* ProductPage.compare_products(a, b) called by the step
CompareProducts(a, b) ==
    IF CacheSufficient(last_collected_titles, Required(a, b))
    THEN /\ caller' = "compare"
         /\ index_a' = a
         /\ index_b' = b
         /\ min_count' = 0
         /\ max_scrolls' = 0
         /\ cacheAtCall' = last_collected_titles
         /\ accumulated' = <<>>
         /\ consecutive_no_new' = 0
         /\ attempt' = 0
         /\ readLog' = <<>>
         /\ scrollLog' = <<>>
         /\ addedLog' = <<>>
         /\ usedTitles' = last_collected_titles.titles
         /\ outcome' = CompareTitles(last_collected_titles.titles, a, b)
         /\ UNCHANGED <<last_collected_titles, pc>>
    ELSE CollectBegin("compare", Required(a, b), CompareMaxScrolls, a, b)

\* context.compare_result = product_page.compare_products(idx_a, idx_b)
StoreOrPropagate(o) ==
    /\ cmpPc' = "done"
    /\ compareReturned' = o
    /\ IF o.kind = "record"
       THEN /\ compare_result' = [has |-> TRUE, value |-> o.record]
            /\ cmpResult' = "returned"
       ELSE /\ cmpResult' = o.kind
            /\ UNCHANGED compare_result

\* the call of compare_products
StepDelegate ==
    /\ cmpPc = "delegating"
    /\ compareCalls' = Append(compareCalls, <<IndexOf(i1), IndexOf(i2)>>)
    /\ IF product_page.kind = "ProductPage"
       THEN /\ CompareProducts(IndexOf(i1), IndexOf(i2))
            /\ cmpPc' = "comparing"
            /\ UNCHANGED <<compareReturned, compare_result, cmpResult>>
       ELSE /\ \E o \in DoubleCompare : StoreOrPropagate(o)
            /\ UNCHANGED pageVars
    /\ UNCHANGED <<product_page, i1, i2, ensureReturn, titles, captureLog>>

\* the real page's compare_products returns or raises
StepCompareReturns ==
    /\ cmpPc = "comparing"
    /\ pc = "idle"
    /\ StoreOrPropagate(outcome)
    /\ UNCHANGED <<pageVars, product_page, i1, i2, ensureReturn, titles,
                   captureLog, compareCalls>>

CompareStepIdle ==
    /\ product_page = RealPage
    /\ i1 = 1
    /\ i2 = 1
    /\ cmpPc = "idle"
    /\ ensureReturn = -1
    /\ titles = Unsized
    /\ captureLog = <<>>
    /\ compareCalls = <<>>
    /\ compareReturned = NoOutcome
    /\ compare_result = NoCompareResult
    /\ cmpResult = "none"

(***************************************************************************)
(* login_steps.step_verify_home_screen and wait_for_any_locator.           *)
(*   hasLoginPage (above)  context has the attribute login_page            *)
(*   pageHasCapture  that page has _capture_debug_artifacts                *)
(*   per_locator_timeout  int(HOME_WAIT_SECONDS), default 10               *)
(*   homePc       "idle", "waiting" or "done"                              *)
(*   homeWaits    every WebDriverWait(...).until of the step, in order     *)
(*   homeArtifacts  what the except block captured                         *)
(*   homeResult   "returned" or the exception the step raised              *)
(***************************************************************************)
VARIABLES pageHasCapture, per_locator_timeout, homePc, homeWaits,
          homeArtifacts, homeResult

homeVars == <<pageHasCapture, per_locator_timeout, homePc, homeWaits,
              homeArtifacts, homeResult>>

Locator(by, value) == [by |-> by, value |-> value]

\* locators_to_try
HomeLocators ==
    << Locator("accessibility id", "open menu"),
       Locator("id", "com.saucelabs.mydemoapp.android:id/productTV"),
       Locator("id", "com.saucelabs.mydemoapp.android:id/productList") >>

HomeWaitDefault == 10
HomeWaitChoices == {HomeWaitDefault, 1, 30}

VisibilityOutcomes == {"visible", "TimeoutException", "WebDriverException"}
ScreenshotOutcomes == {"ok", "raises"}

\* wait_for_any_locator: "except TimeoutException: continue"
TriesNext(o) == o = "TimeoutException"

UsesPageCapture_Never(has, cap) == FALSE

\* hasattr(context, "login_page") and
\* hasattr(context.login_page, "_capture_debug_artifacts")
UsesPageCapture(has, cap) == has /\ cap

HomeCapturePrefix == "verify_home_screen_timeout"

\* the step is called: the first wait starts
StepVerifyHomeScreen ==
    /\ homePc = "idle"
    /\ homePc' = "waiting"
    /\ UNCHANGED <<hasLoginPage, pageHasCapture, per_locator_timeout,
                   homeWaits, homeArtifacts, homeResult>>

\* one pass of "for locator in locators" and, when the loop ends without a
\* visible locator, the except block of the step
HomeWait ==
    /\ homePc = "waiting"
    /\ \E o \in VisibilityOutcomes :
        LET n == Len(homeWaits) + 1
        IN  /\ homeWaits' = Append(homeWaits,
                    [locator |-> HomeLocators[n],
                     timeout |-> per_locator_timeout, out |-> o])
            /\ IF o = "visible"
               THEN /\ homePc' = "done"
                    /\ homeResult' = "returned"
                    /\ UNCHANGED homeArtifacts
               ELSE IF ~TriesNext(o)
               THEN /\ homePc' = "done"
                    /\ homeResult' = o
                    /\ UNCHANGED homeArtifacts
               ELSE IF n < Len(HomeLocators)
               THEN UNCHANGED <<homePc, homeResult, homeArtifacts>>
               ELSE /\ homePc' = "done"
                    /\ homeResult' = "TimeoutException"
                    /\ \E c \in ScreenshotOutcomes :
                          homeArtifacts' =
                             IF UsesPageCapture(hasLoginPage, pageHasCapture)
                             THEN <<[via |-> "login_page._capture_debug_artifacts",
                                     prefix |-> HomeCapturePrefix, out |-> c]>>
                             ELSE <<[via |-> "driver.get_screenshot_as_file",
                                     prefix |-> HomeCapturePrefix, out |-> c]>>
    /\ UNCHANGED <<hasLoginPage, pageHasCapture, per_locator_timeout>>

HomeIdle ==
    /\ pageHasCapture = FALSE
    /\ per_locator_timeout = HomeWaitDefault
    /\ homePc = "idle"
    /\ homeWaits = <<>>
    /\ homeArtifacts = <<>>
    /\ homeResult = "none"

HomeInit ==
    /\ hasLoginPage \in BOOLEAN
    /\ pageHasCapture \in BOOLEAN
    /\ hasLoginPage \/ ~pageHasCapture
    /\ per_locator_timeout \in HomeWaitChoices
    /\ homePc = "idle"
    /\ homeWaits = <<>>
    /\ homeArtifacts = <<>>
    /\ homeResult = "none"

(***************************************************************************)
(* One call of ProductPage.get_all_product_titles.                         *)
(*   driverShows   what the driver answers to the lookups of the call      *)
(*   getAllPc      "idle" or "done"                                        *)
(*   getAllResult  the list returned                                       *)
(***************************************************************************)
VARIABLES driverShows, getAllPc, getAllResult

getAllVars == <<driverShows, getAllPc, getAllResult>>

\* answers of find_elements(PRODUCT_TITLE), first lookup
TitleLookups ==
    { <<>>, <<tProducts>>, <<tBlank>>, <<tP1>>, <<tP1, tP2sp>>,
      <<tProducts, tP1>> }

\* answers of find_elements(ANDROID_UIAUTOMATOR, productIV)
ImageLookups ==
    { NoImages,
      <<Image(tEmpty, <<tBlank, tP1>>)>>,
      <<Image(tP2sp, <<>>), Image(tEmpty, <<>>)>> }

\* answers of the global XPath candidates, in listed order
XPathLookups ==
    { NoXPath,
      <<<<tProducts>>, <<tCatalog>>>>,
      <<<<>>, <<tP1, tBlank>>, <<tP2sp>>>> }

\* the screen may have changed when the fallback looks up the titles again
SecondTitleLookups(tv) == { tv, <<tProducts, tP1>>, <<tProducts, tP1, tP2sp>> }

DriverAnswers ==
    { [tv |-> t, tv2 |-> t2, img |-> i, xp |-> x] :
        t \in TitleLookups, t2 \in TitleLookups \cup {<<tProducts, tP1, tP2sp>>},
        i \in ImageLookups, x \in XPathLookups }

\* get_all_product_titles is called
GetAll ==
    /\ getAllPc = "idle"
    /\ getAllPc' = "done"
    /\ getAllResult' = GetAllProductTitles(driverShows)
    /\ UNCHANGED driverShows

GetAllIdle ==
    /\ driverShows = [tv |-> <<>>, tv2 |-> <<>>, img |-> NoImages, xp |-> NoXPath]
    /\ getAllPc = "idle"
    /\ getAllResult = <<>>

GetAllInit ==
    /\ driverShows \in { d \in DriverAnswers : d.tv2 \in SecondTitleLookups(d.tv) }
    /\ getAllPc = "idle"
    /\ getAllResult = <<>>

(***************************************************************************)
(* LoginPage.enter_username, enter_password, open_menu,                    *)
(* open_login_from_menu, login, login_via_menu.                            *)
(***************************************************************************)
CalledFromOutside ==
    {"enter_username", "enter_password", "open_menu", "open_login_from_menu",
     "login", "login_via_menu"}

ClearOutcomes == {"ok", "WebDriverException"}
SendKeysOutcomes == {"ok", "TimeoutException", "WebDriverException"}

PageEvent(m, op, out) == [method |-> m, op |-> op, out |-> out]

\* prefix of the capture _wait_for_clickable makes for the locator of m
ClickableCapture(m) ==
    CASE m = "enter_username" -> "clickable_com.saucelabs.mydemoapp.android:id/nameET"
      [] m = "enter_password" -> "clickable_com.saucelabs.mydemoapp.android:id/passwordET"
      [] m = "open_menu" -> "clickable_com.saucelabs.mydemoapp.android:id/menuIV"
      [] m = "open_login_from_menu" -> "clickable_new UiSelector().text(\"Log In\")"

\* prefix of the capture of the except block of enter_username / enter_password
EnterFailedCapture(m) ==
    IF m = "enter_username"
    THEN "enter_username_failed_com.saucelabs.mydemoapp.android:id/nameET"
    ELSE "enter_password_failed_com.saucelabs.mydemoapp.android:id/passwordET"

MenuItemFailedCapture == "login_via_menu_failed_menu_item"

Ran(events, caps, result) == [events |-> events, captures |-> caps, result |-> result]

\* enter_username / enter_password: w, c, k, h are what the wait, clear(),
\* send_keys() and driver.hide_keyboard() do
EnterField(m, w, c, k, h) ==
    IF w = "TimeoutException"
    THEN Ran(<<PageEvent(m, "wait", w), PageEvent(m, "hide_keyboard", h)>>,
             <<ClickableCapture(m), EnterFailedCapture(m)>>, "TimeoutException")
    ELSE IF k = "ok"
    THEN Ran(<<PageEvent(m, "wait", w), PageEvent(m, "clear", c),
               PageEvent(m, "send_keys", k), PageEvent(m, "hide_keyboard", h)>>,
             <<>>, "ok")
    ELSE IF k = "TimeoutException"
    THEN Ran(<<PageEvent(m, "wait", w), PageEvent(m, "clear", c),
               PageEvent(m, "send_keys", k), PageEvent(m, "hide_keyboard", h)>>,
             <<EnterFailedCapture(m)>>, "TimeoutException")
    ELSE Ran(<<PageEvent(m, "wait", w), PageEvent(m, "clear", c),
               PageEvent(m, "send_keys", k)>>,
             <<>>, k)

\* open_menu / open_login_from_menu: w and k are what the wait and click() do
ClickMenu(m, w, k) ==
    IF w = "TimeoutException"
    THEN Ran(<<PageEvent(m, "wait", w)>>, <<ClickableCapture(m)>>, "TimeoutException")
    ELSE Ran(<<PageEvent(m, "wait", w), PageEvent(m, "click", k)>>, <<>>, k)

\* the runs a primitive can make
RunsOf(m) ==
    IF m \in {"enter_username", "enter_password"}
    THEN { EnterField(m, w, c, k, h) :
              w \in WaitOutcomes, c \in ClearOutcomes, k \in SendKeysOutcomes,
              h \in HideKeyboardOutcomes }
    ELSE { ClickMenu(m, w, k) : w \in WaitOutcomes, k \in ClickOutcomes }

MenuItemCapture_Never(m, p, exc) == <<>>

\* login_via_menu: "except TimeoutException" around open_login_from_menu
MenuItemCapture(m, p, exc) ==
    IF m = "login_via_menu" /\ p = "open_login_from_menu" /\ exc = "TimeoutException"
    THEN <<MenuItemFailedCapture>> ELSE <<>>

\* a public method other than tap_login is called
LoginPageCall ==
    /\ lpMethod = "none"
    /\ tapPc = "idle"
    /\ \E m \in CalledFromOutside : lpMethod' = m
    /\ lpPos' = 1
    /\ UNCHANGED <<lpLog, lpCaptures, lpResult, tapVars>>

\* the next primitive of the method runs to its end
LoginPagePrimitive ==
    /\ lpMethod # "none"
    /\ lpResult = "none"
    /\ Plan(lpMethod)[lpPos] # "tap_login"
    /\ \E r \in RunsOf(Plan(lpMethod)[lpPos]) :
          /\ lpLog' = lpLog \o r.events
          /\ lpCaptures' = lpCaptures \o r.captures
                              \o MenuItemCapture(lpMethod, Plan(lpMethod)[lpPos], r.result)
          /\ IF r.result # "ok"
             THEN lpResult' = r.result /\ UNCHANGED lpPos
             ELSE IF lpPos = Len(Plan(lpMethod))
             THEN lpResult' = "returned" /\ UNCHANGED lpPos
             ELSE lpPos' = lpPos + 1 /\ UNCHANGED lpResult
    /\ UNCHANGED <<lpMethod, tapVars>>

\* tap_login, called by login, has ended
LoginPageTapEnds ==
    /\ lpMethod # "none"
    /\ lpResult = "none"
    /\ Plan(lpMethod)[lpPos] = "tap_login"
    /\ tapPc = "done"
    /\ lpResult' = tapResult
    /\ lpCaptures' = lpCaptures \o captures
    /\ UNCHANGED <<lpMethod, lpPos, lpLog, tapVars>>

LoginPageIdle ==
    /\ lpMethod = "none"
    /\ lpPos = 1
    /\ lpLog = <<>>
    /\ lpCaptures = <<>>
    /\ lpResult = "none"

(***************************************************************************)
(* product_steps.step_app_on_products and the page objects of the context. *)
(*   ctxDriver, loginPageDriver, hasLoginPage (above)                      *)
(*   hasProductPage     context has the attribute product_page             *)
(*   productPageDriver  the driver wrapped by context.product_page         *)
(*   pageStep           the last step that looked for context.driver to    *)
(*                      build a ProductPage                                *)
(*   pageStepResult     "ok" or the exception that step raised there       *)
(***************************************************************************)
VARIABLES hasProductPage, productPageDriver, pageStep, pageStepResult

ctxVars == <<hasProductPage, productPageDriver, pageStep, pageStepResult>>

DriverMissing_Never(d) == FALSE

\* not hasattr(context, "driver")
DriverMissing(d) == d = "absent"

\* step_app_on_products: RuntimeError without context.driver, else a new
\* ProductPage(context.driver) replaces context.product_page
StepAppOnProducts ==
    /\ pageStep' = "app_on_products"
    /\ IF DriverMissing(ctxDriver)
       THEN /\ pageStepResult' = "RuntimeError"
            /\ UNCHANGED <<hasProductPage, productPageDriver>>
       ELSE /\ hasProductPage' = TRUE
            /\ productPageDriver' = ctxDriver
            /\ pageStepResult' = "ok"

\* step_compare_products, its lines on the context's page object: a missing
\* product_page is built from context.driver, whose absence is an
\* AttributeError; the rest of the step is StepCompareProducts
StepCompareProductsPage ==
    /\ pageStep' = "compare_products"
    /\ IF hasProductPage
       THEN /\ pageStepResult' = "ok"
            /\ UNCHANGED <<hasProductPage, productPageDriver>>
       ELSE IF ctxDriver = "absent"
       THEN /\ pageStepResult' = "AttributeError"
            /\ UNCHANGED <<hasProductPage, productPageDriver>>
       ELSE /\ hasProductPage' = TRUE
            /\ productPageDriver' = ctxDriver
            /\ pageStepResult' = "ok"

\* behave runs the steps of a scenario one after the other, before the hook
BetweenSteps ==
    /\ openPc \in {"idle", "done"}
    /\ stepPhase \in {"idle", "done"}
    /\ hookResult = "none"

ContextIdle ==
    /\ hasProductPage = FALSE
    /\ productPageDriver = "absent"
    /\ pageStep = "none"
    /\ pageStepResult = "none"

PageIdle ==
    /\ last_collected_titles = NoCache
    /\ pc = "idle"
    /\ caller = "none"
    /\ min_count = 0
    /\ max_scrolls = 0
    /\ index_a = 0
    /\ index_b = 0
    /\ accumulated = <<>>
    /\ consecutive_no_new = 0
    /\ attempt = 0
    /\ cacheAtCall = NoCache
    /\ readLog = <<>>
    /\ scrollLog = <<>>
    /\ addedLog = <<>>
    /\ usedTitles = <<>>
    /\ outcome = NoOutcome

stepRest == <<stepName, stepPhase, stepPos, usuario, senha, pageCalls,
              stepResult>>

vars == <<pageVars, stepVars, detectVars, openVars, tapVars, cmpVars, homeVars,
          getAllVars, lpVars, ctxVars>>

(***************************************************************************)
(* Spec: one call on a product page object.                                *)
(***************************************************************************)
Init == PageInit /\ hasLoginPage = FALSE /\ StepsIdle /\ DetectIdle /\ OpenIdle /\ TapIdle /\ CompareStepIdle /\ HomeIdle /\ GetAllIdle /\ LoginPageIdle /\ ContextIdle

Next ==
    \/ CollectProductTitles /\ UNCHANGED <<stepVars, detectVars, openVars, tapVars, cmpVars, homeVars, getAllVars, lpVars, ctxVars>>
    \/ EnsureMinimumProducts /\ UNCHANGED <<stepVars, detectVars, openVars, tapVars, cmpVars, homeVars, getAllVars, lpVars, ctxVars>>
    \/ CompareFromCache /\ UNCHANGED <<stepVars, detectVars, openVars, tapVars, cmpVars, homeVars, getAllVars, lpVars, ctxVars>>
    \/ CompareCollecting /\ UNCHANGED <<stepVars, detectVars, openVars, tapVars, cmpVars, homeVars, getAllVars, lpVars, ctxVars>>
    \/ CollectLoopIteration /\ UNCHANGED <<stepVars, detectVars, openVars, tapVars, cmpVars, homeVars, getAllVars, lpVars, ctxVars>>

Spec == Init /\ [][Next]_vars

\* the scroll loop is straight-line code: once entered it keeps running
FairSpec ==
    Spec /\ WF_vars(CollectLoopIteration
                      /\ UNCHANGED <<stepVars, detectVars, openVars, tapVars,
                                     cmpVars, homeVars, getAllVars, lpVars, ctxVars>>)

(***************************************************************************)
(* SpecSteps: the login steps run against a login page object.             *)
(***************************************************************************)
InitSteps == StepsInit /\ PageIdle /\ DetectIdle /\ OpenIdle /\ TapIdle /\ CompareStepIdle /\ HomeIdle /\ GetAllIdle /\ LoginPageIdle /\ ContextIdle

NextSteps ==
    \/ StepEnterCredentials /\ UNCHANGED <<pageVars, detectVars, openVars, tapVars, cmpVars, homeVars, getAllVars, lpVars, ctxVars>>
    \/ StepLoggedIn /\ UNCHANGED <<pageVars, detectVars, openVars, tapVars, cmpVars, homeVars, getAllVars, lpVars, ctxVars>>
    \/ StepDirectCall /\ UNCHANGED <<pageVars, detectVars, openVars, tapVars, cmpVars, homeVars, getAllVars, lpVars, ctxVars>>
    \/ StepFallbackCall /\ UNCHANGED <<pageVars, detectVars, openVars, tapVars, cmpVars, homeVars, getAllVars, lpVars, ctxVars>>

SpecSteps == InitSteps /\ [][NextSteps]_vars

(***************************************************************************)
(* SpecDetect: endpoint detection against a server.                        *)
(***************************************************************************)
InitDetect ==
    DetectInit /\ PageIdle /\ hasLoginPage = FALSE /\ StepsIdle /\ OpenIdle
    /\ TapIdle /\ CompareStepIdle /\ HomeIdle /\ GetAllIdle /\ LoginPageIdle /\ ContextIdle

NextDetect ==
    \/ DetectAppiumEndpoint /\ UNCHANGED <<pageVars, stepVars, openVars, tapVars, cmpVars, homeVars, getAllVars, lpVars, ctxVars>>
    \/ DetectProbe /\ UNCHANGED <<pageVars, stepVars, openVars, tapVars, cmpVars, homeVars, getAllVars, lpVars, ctxVars>>

SpecDetect == InitDetect /\ [][NextDetect]_vars

(***************************************************************************)
(* SpecOpenApp: a scenario opens the app and the after_scenario hook runs. *)
(***************************************************************************)
InitOpenApp ==
    /\ OpenInit /\ DetectInit /\ PageIdle /\ hasLoginPage = FALSE /\ StepsIdle
    /\ TapIdle /\ CompareStepIdle /\ HomeIdle /\ GetAllIdle /\ LoginPageIdle /\ ContextIdle

NextOpenApp ==
    \/ StepOpenApp /\ UNCHANGED <<pageVars, stepRest, tapVars, cmpVars, homeVars, getAllVars, lpVars, ctxVars>>
    \/ DetectProbe /\ UNCHANGED <<pageVars, stepVars, openVars, tapVars, cmpVars, homeVars, getAllVars, lpVars, ctxVars>>
    \/ StepOpenAppSession /\ UNCHANGED <<pageVars, stepRest, tapVars, cmpVars, homeVars, getAllVars, lpVars, ctxVars>>
    \/ AfterScenario /\ UNCHANGED <<pageVars, stepRest, tapVars, cmpVars, homeVars, getAllVars, lpVars, ctxVars>>

SpecOpenApp == InitOpenApp /\ [][NextOpenApp]_vars

(***************************************************************************)
(* SpecLoginPage: calls on a LoginPage object.                             *)
(***************************************************************************)
InitLoginPage ==
    /\ TapInit /\ LoginPageIdle /\ ContextIdle /\ PageIdle /\ hasLoginPage = FALSE /\ StepsIdle
    /\ DetectIdle /\ OpenIdle /\ CompareStepIdle /\ HomeIdle /\ GetAllIdle

otherThanLoginPage ==
    <<pageVars, stepVars, detectVars, openVars, cmpVars, homeVars, getAllVars,
      ctxVars>>

NextLoginPage ==
    \/ TapLogin /\ UNCHANGED <<otherThanLoginPage, lpVars, ctxVars>>
    \/ TapClick /\ UNCHANGED <<otherThanLoginPage, lpVars, ctxVars>>
    \/ TapHideKeyboard /\ UNCHANGED <<otherThanLoginPage, lpVars, ctxVars>>
    \/ TapScroll /\ UNCHANGED <<otherThanLoginPage, lpVars, ctxVars>>
    \/ TapSecondWait /\ UNCHANGED <<otherThanLoginPage, lpVars, ctxVars>>
    \/ LoginPageCall /\ UNCHANGED otherThanLoginPage
    \/ LoginPagePrimitive /\ UNCHANGED otherThanLoginPage
    \/ LoginPageTapEnds /\ UNCHANGED otherThanLoginPage

SpecLoginPage == InitLoginPage /\ [][NextLoginPage]_vars

(***************************************************************************)
(* SpecCompareStep: one run of step_compare_products.                      *)
(***************************************************************************)
otherThanCompare == <<stepVars, detectVars, openVars, tapVars, homeVars, getAllVars,
                      lpVars, ctxVars>>

InitCompareStep ==
    /\ CompareStepIdle /\ PageIdle /\ hasLoginPage = FALSE /\ StepsIdle
    /\ DetectIdle /\ OpenIdle /\ TapIdle /\ HomeIdle /\ GetAllIdle /\ LoginPageIdle /\ ContextIdle

NextCompareStep ==
    \/ StepCompareProducts /\ UNCHANGED otherThanCompare
    \/ CollectLoopIteration /\ UNCHANGED <<otherThanCompare, cmpVars, homeVars, getAllVars, lpVars, ctxVars>>
    \/ StepEnsureReturns /\ UNCHANGED otherThanCompare
    \/ StepReadTitles /\ UNCHANGED otherThanCompare
    \/ StepDelegate /\ UNCHANGED otherThanCompare
    \/ StepCompareReturns /\ UNCHANGED otherThanCompare

SpecCompareStep == InitCompareStep /\ [][NextCompareStep]_vars

(***************************************************************************)
(* SpecHome: one run of step_verify_home_screen.                           *)
(***************************************************************************)
otherThanHome == <<pageVars, stepRest, detectVars, openVars, tapVars, cmpVars,
                   getAllVars, lpVars, ctxVars>>

InitHome ==
    /\ HomeInit /\ PageIdle /\ StepsIdle /\ DetectIdle /\ OpenIdle /\ TapIdle
    /\ CompareStepIdle /\ GetAllIdle /\ LoginPageIdle /\ ContextIdle

NextHome ==
    \/ StepVerifyHomeScreen /\ UNCHANGED otherThanHome
    \/ HomeWait /\ UNCHANGED otherThanHome

SpecHome == InitHome /\ [][NextHome]_vars

(***************************************************************************)
(* SpecGetAll: one call of get_all_product_titles on what the driver shows.*)
(***************************************************************************)
InitGetAll ==
    /\ GetAllInit /\ PageIdle /\ hasLoginPage = FALSE /\ StepsIdle /\ DetectIdle
    /\ OpenIdle /\ TapIdle /\ CompareStepIdle /\ HomeIdle /\ LoginPageIdle /\ ContextIdle

NextGetAll ==
    \/ GetAll /\ UNCHANGED <<pageVars, stepVars, detectVars, openVars, tapVars,
                             cmpVars, homeVars, lpVars, ctxVars>>

SpecGetAll == InitGetAll /\ [][NextGetAll]_vars

(***************************************************************************)
(* SpecContext: the steps of a scenario run one after the other on one     *)
(* context, then the after_scenario hook runs.                             *)
(***************************************************************************)
InitContext ==
    /\ base_url = Host /\ android_home = "" /\ dirs \in {{}, Directories}
    /\ OpenInit /\ DetectInit /\ PageIdle /\ hasLoginPage = FALSE /\ StepsIdle
    /\ TapIdle /\ CompareStepIdle /\ HomeIdle /\ GetAllIdle /\ LoginPageIdle
    /\ ContextIdle

otherThanContext == <<pageVars, tapVars, cmpVars, homeVars, getAllVars, lpVars>>

NextContext ==
    \/ BetweenSteps /\ StepOpenApp /\ UNCHANGED <<otherThanContext, stepRest, ctxVars>>
    \/ DetectProbe /\ UNCHANGED <<otherThanContext, stepVars, openVars, ctxVars>>
    \/ StepOpenAppSession /\ UNCHANGED <<otherThanContext, stepRest, ctxVars>>
    \/ BetweenSteps /\ AfterScenario /\ UNCHANGED <<otherThanContext, stepRest, ctxVars>>
    \/ BetweenSteps /\ StepAppOnProducts
          /\ UNCHANGED <<otherThanContext, stepVars, detectVars, openVars>>
    \/ BetweenSteps /\ StepCompareProductsPage
          /\ UNCHANGED <<otherThanContext, stepVars, detectVars, openVars>>
    \/ BetweenSteps /\ StepEnterCredentials
          /\ UNCHANGED <<otherThanContext, detectVars, openVars, ctxVars>>
    \/ BetweenSteps /\ StepLoggedIn
          /\ UNCHANGED <<otherThanContext, detectVars, openVars, ctxVars>>
    \/ StepDirectCall /\ UNCHANGED <<otherThanContext, detectVars, openVars, ctxVars>>
    \/ StepFallbackCall /\ UNCHANGED <<otherThanContext, detectVars, openVars, ctxVars>>

SpecContext == InitContext /\ [][NextContext]_vars

(***************************************************************************)
(* Helpers of the properties.                                              *)
(***************************************************************************)
\* a header-like placeholder, as the documentation lists them
Placeholder(t) ==
    Lower(Strip(t)) \in { <<>>, <<"p","r","o","d","u","c","t","s">>,
                          <<"p","r","o","d","u","c","t">>,
                          <<"t","i","t","l","e">>,
                          <<"c","a","t","a","l","o","g">> }

KeepTitles(visible) == SelectSeq(visible, LAMBDA t : ~Placeholder(t))

\* concatenation, in read order, of the kept titles of the first n reads
RECURSIVE ConcatKept(_, _)
ConcatKept(log, n) ==
    IF n = 0 THEN <<>> ELSE ConcatKept(log, n - 1) \o KeepTitles(log[n])

Elems(ts) == { ts[i] : i \in 1..Len(ts) }

Returned == pc = "idle" /\ caller # "none"
CollectRan == Returned /\ readLog # <<>>

\* the list collect_product_titles handed back to its caller
CollectedList == last_collected_titles.titles

\* C1: once two consecutive successful scroll iterations each added zero
\* titles, collect_product_titles has stopped: that iteration is the last
\* one, no later scroll or viewport read exists, and the accumulated list is
\* what was returned.
C1_StopsAfterTwoEmptyScrolls ==
    \A i \in 1..(Len(addedLog) - 1) :
        (addedLog[i] = 0 /\ addedLog[i + 1] = 0) =>
            /\ i + 1 = Len(addedLog)
            /\ pc = "idle"
            /\ Len(scrollLog) = Len(addedLog)
            /\ Len(readLog) = Len(addedLog) + 1
            /\ CollectedList = accumulated
            /\ (caller = "collect" => outcome = ReturnTitles(accumulated))

C1_Witness ==
    /\ CollectRan
    /\ Len(addedLog) >= 2
    /\ addedLog[Len(addedLog)] = 0
    /\ addedLog[Len(addedLog) - 1] = 0
    /\ Len(accumulated) < min_count
    /\ attempt < max_scrolls

\* C2: the list returned by collect_product_titles is the concatenation, in
\* read order, of the non-header-like titles of every viewport read;
\* duplicates are kept.
C2_ReturnIsConcatenationOfReads ==
    /\ (caller # "none" /\ readLog # <<>>) =>
           accumulated = ConcatKept(readLog, Len(readLog))
    /\ CollectRan =>
           /\ CollectedList = ConcatKept(readLog, Len(readLog))
           /\ (caller = "collect" =>
                  outcome = ReturnTitles(ConcatKept(readLog, Len(readLog))))
           /\ (caller = "compare" =>
                  usedTitles = ConcatKept(readLog, Len(readLog)))

C2_Witness ==
    /\ CollectRan
    /\ caller = "collect"
    /\ Len(readLog) >= 3
    /\ \E i, j \in 1..Len(outcome.titles) :
          i < j /\ outcome.titles[i] = outcome.titles[j]

\* C3: neither the returned list nor the cached _last_collected_titles ever
\* contains a header-like placeholder.
C3_NoHeaderLikeCollected ==
    /\ \A t \in Elems(accumulated) : ~Placeholder(t)
    /\ \A t \in Elems(last_collected_titles.titles) : ~Placeholder(t)
    /\ \A t \in Elems(outcome.titles) : ~Placeholder(t)
    /\ \A t \in Elems(usedTitles) : ~Placeholder(t)

C3_Witness ==
    /\ CollectRan
    /\ caller = "collect"
    /\ outcome.titles # <<>>
    /\ \E i \in 1..Len(readLog) :
          \E t \in Elems(readLog[i]) : Placeholder(t) /\ Strip(t) # t

\* scroll iteration i (1-based) showed no product that was not collected
\* before it
NothingNewAt(i) ==
    \A t \in Elems(KeepTitles(readLog[i + 1])) :
        t \in Elems(ConcatKept(readLog, i))

\* C4: when two consecutive scrolls each show only titles that are already
\* in the accumulated list, no further scroll is performed.
C4_StopsWhenNothingNewTwice ==
    \A i \in 1..(Len(addedLog) - 1) :
        (NothingNewAt(i) /\ NothingNewAt(i + 1)) =>
            /\ pc = "idle"
            /\ i + 1 = Len(addedLog)
            /\ Len(scrollLog) = Len(addedLog)

\* Python indexing of the claim: a negative index counts from the end
TitleAt(ts, i) == ts[(IF i < 0 THEN Len(ts) + i ELSE i) + 1]

\* C5: whenever compare_products returns, product_a = titles[a],
\* product_b = titles[b] and equal = (titles[a] == titles[b]), titles being
\* the cache if it was sufficient and the freshly collected list otherwise.
C5_CompareRecord ==
    (caller = "compare" /\ outcome.kind = "record") =>
        /\ usedTitles =
              IF cacheAtCall.has
                 /\ Len(cacheAtCall.titles) >= Max(index_a, index_b) + 1
              THEN cacheAtCall.titles
              ELSE ConcatKept(readLog, Len(readLog))
        /\ outcome.record.product_a = TitleAt(usedTitles, index_a)
        /\ outcome.record.product_b = TitleAt(usedTitles, index_b)
        /\ outcome.record.equal =
              (TitleAt(usedTitles, index_a) = TitleAt(usedTitles, index_b))

C5_Witness ==
    /\ caller = "compare"
    /\ outcome.kind = "record"
    /\ outcome.record.equal
    /\ index_a >= 0 /\ index_b >= 0 /\ index_a # index_b
    /\ readLog # <<>>

\* C6: compare_products raises IndexError and returns no record whenever
\* fewer than max(a, b) + 1 titles are available after the cache was found
\* insufficient and collect_product_titles ran with
\* min_count = max(a, b) + 1 and at most 8 scrolls.
C6_RaisesWhenInsufficient ==
    (caller = "compare" /\ readLog # <<>>) =>
        /\ min_count = Max(index_a, index_b) + 1
        /\ max_scrolls = 8
        /\ Len(scrollLog) <= 8
        /\ (pc = "idle" /\ Len(usedTitles) < Max(index_a, index_b) + 1) =>
               /\ outcome.kind = "IndexError"
               /\ outcome.record = NoRecord

C6_Witness ==
    /\ caller = "compare"
    /\ CollectRan
    /\ cacheAtCall.has
    /\ Len(scrollLog) >= 2
    /\ Len(usedTitles) < Max(index_a, index_b) + 1
    /\ outcome.kind = "IndexError"

\* C7: with a cached list of at least max(a, b) + 1 entries compare_products
\* answers from the cache alone: no collect, no scroll, no element lookup,
\* cache unchanged.
C7_CacheHitTouchesNothing ==
    (caller = "compare" /\ cacheAtCall.has
       /\ Len(cacheAtCall.titles) >= Max(index_a, index_b) + 1) =>
        /\ pc = "idle"
        /\ readLog = <<>>
        /\ scrollLog = <<>>
        /\ accumulated = <<>>
        /\ last_collected_titles = cacheAtCall
        /\ usedTitles = cacheAtCall.titles
        /\ outcome = CompareTitles(cacheAtCall.titles, index_a, index_b)

C7_Witness ==
    /\ caller = "compare"
    /\ cacheAtCall.has
    /\ Len(cacheAtCall.titles) = Max(index_a, index_b) + 1
    /\ outcome.kind = "record"
    /\ readLog = <<>>

Methods(calls) == [i \in 1..Len(calls) |-> calls[i].method]

IsPrefix(p, q) == Len(p) <= Len(q) /\ \A i \in 1..Len(p) : p[i] = q[i]

\* position of the first call of the step that raised, 0 if none did
FirstRaise ==
    IF \E i \in 1..Len(pageCalls) : pageCalls[i].out # "ok"
    THEN CHOOSE i \in 1..Len(pageCalls) :
            /\ pageCalls[i].out # "ok"
            /\ \A j \in 1..(i - 1) : pageCalls[j].out = "ok"
    ELSE 0

\* the direct field entry (enter_username, then enter_password) raised
\* TimeoutException
DirectEntryTimedOut ==
    /\ FirstRaise \in {1, 2}
    /\ pageCalls[FirstRaise].out = "TimeoutException"

AfterDirect == SubSeq(pageCalls, FirstRaise + 1, Len(pageCalls))

\* C8: in step_enter_credentials, after the direct entry raised
\* TimeoutException the step calls open_menu, open_login_from_menu,
\* enter_username, enter_password in that order (each one once the previous
\* returned), no failure is propagated before open_menu was called, and the
\* failure propagated is the one of the fallback call that raised; tap_login
\* is never called.
C8_EnterCredentialsFallbackOrder ==
    stepName = "enter_credentials" =>
        /\ \A i \in 1..Len(pageCalls) : pageCalls[i].method # "tap_login"
        /\ DirectEntryTimedOut =>
              /\ IsPrefix(Methods(AfterDirect),
                          <<"open_menu", "open_login_from_menu",
                            "enter_username", "enter_password">>)
              /\ \A i \in 1..(Len(AfterDirect) - 1) : AfterDirect[i].out = "ok"
              /\ \A i \in 1..Len(AfterDirect) :
                    /\ AfterDirect[i].method = "enter_username" =>
                          AfterDirect[i].args = <<usuario>>
                    /\ AfterDirect[i].method = "enter_password" =>
                          AfterDirect[i].args = <<senha>>
              /\ stepPhase = "done" =>
                    /\ Len(AfterDirect) >= 1
                    /\ stepResult = AfterDirect[Len(AfterDirect)].out
                    /\ stepResult = "ok" => Len(AfterDirect) = 4

C8_Witness ==
    /\ stepName = "enter_credentials"
    /\ stepPhase = "done"
    /\ DirectEntryTimedOut
    /\ FirstRaise = 2
    /\ Len(AfterDirect) = 4
    /\ stepResult = "TimeoutException"

CountOf(m) == Cardinality({ i \in 1..Len(pageCalls) : pageCalls[i].method = m })

\* C9: step_logged_in (run with a login page in the context) calls
\* login(usuario, senha) first; login_via_menu(usuario, senha) is called
\* exactly once if and only if login raised TimeoutException, and never
\* when login returned normally.
C9_LoggedInFallbackOnlyOnTimeout ==
    (stepName = "logged_in" /\ hasLoginPage) =>
        /\ pageCalls # <<>> =>
              pageCalls[1] = [method |-> "login", args |-> <<usuario, senha>>,
                              out |-> pageCalls[1].out]
        /\ CountOf("login") <= 1
        /\ CountOf("login_via_menu") <= 1
        /\ \A i \in 1..Len(pageCalls) :
              pageCalls[i].method = "login_via_menu" =>
                  /\ i = 2
                  /\ pageCalls[i].args = <<usuario, senha>>
                  /\ pageCalls[1].out = "TimeoutException"
        /\ stepPhase = "done" =>
              /\ CountOf("login") = 1
              /\ (CountOf("login_via_menu") = 1) <=>
                     (pageCalls[1].out = "TimeoutException")
              /\ pageCalls[1].out = "ok" =>
                     (CountOf("login_via_menu") = 0 /\ stepResult = "ok")

C9_Witness ==
    /\ stepName = "logged_in"
    /\ hasLoginPage
    /\ stepPhase = "done"
    /\ Len(pageCalls) = 2
    /\ pageCalls[1].out = "TimeoutException"
    /\ pageCalls[2].method = "login_via_menu"
    /\ stepResult = "ok"

\* C10: _detect_appium_endpoint returns the first candidate, in the order
\* <base> then <base>/wd/hub, whose /status probe answers HTTP 200, and
\* <base> when neither does; it never raises.
C10_DetectReturnsFirstHealthyCandidate ==
    /\ detResult.kind # "raise"
    /\ detPc = "done" =>
          /\ detResult.kind = "return"
          /\ detResult.value =
                IF server.root = Status(200) THEN Host
                ELSE IF server.hub = Status(200)
                     THEN Host \o <<"/","w","d","/","h","u","b">>
                     ELSE Host
    /\ IsPrefix(probes,
                << Host \o <<"/","s","t","a","t","u","s">>,
                   Host \o <<"/","w","d","/","h","u","b",
                             "/","s","t","a","t","u","s">> >>)

C10_Witness ==
    /\ detPc = "done"
    /\ base_url # Host
    /\ server.root.raised = "Timeout"
    /\ server.hub = Status(200)
    /\ detResult = [kind |-> "return", value |-> Host \o WdHub]

\* C20: whenever ensure_minimum_products returns, the returned count equals
\* the length of the accumulated title list and is at least min_count.
C20_EnsureReturnsAtLeastMinCount ==
    (caller = "ensure" /\ pc = "idle") =>
        /\ outcome.kind = "count"
        /\ outcome.count = Len(accumulated)
        /\ outcome.count >= min_count

\* the SDK root of the claim: ANDROID_SDK_ROOT if non-empty, else ANDROID_HOME
ClaimedSdkRoot == IF android_sdk_root # "" THEN android_sdk_root ELSE android_home

EnvironmentGood ==
    /\ ClaimedSdkRoot # ""
    /\ ClaimedSdkRoot \in dirs
    /\ adb.path # ""

\* C11: check_android_environment returns ok = True exactly when the SDK
\* root (ANDROID_SDK_ROOT if non-empty, ANDROID_HOME otherwise) is an
\* existing directory and adb is found on PATH; in every other case ok is
\* False.
C11_EnvOkIffSdkDirAndAdb ==
    openPc # "idle" => (envResult.ok <=> EnvironmentGood)

C11_Witness ==
    /\ openPc # "idle"
    /\ envResult.ok
    /\ android_sdk_root = ""
    /\ android_home \in dirs
    /\ adb.run = "raises"

\* C17: when check_android_environment reports not ok, step_open_app raises
\* RuntimeError before any endpoint probe or session creation: no probe,
\* no webdriver.Remote call, context.driver and context.login_page not set.
C17_BadEnvironmentStopsOpenApp ==
    (openPc # "idle" /\ ~EnvironmentGood) =>
        /\ openPc = "done"
        /\ openResult = "RuntimeError"
        /\ probes = <<>>
        /\ remoteCalls = <<>>
        /\ ctxDriver # Session
        /\ ~hasLoginPage
        /\ loginPageDriver = "absent"

C17_Witness ==
    /\ openPc = "done"
    /\ openResult = "RuntimeError"
    /\ android_sdk_root \in dirs
    /\ adb.path = ""
    /\ server.root = Status(200)

\* C19: after_scenario calls context.driver.quit() exactly once when the
\* context holds a truthy driver, never lets an exception of quit through,
\* and does nothing when the context has no (truthy) driver.
C19_AfterScenarioQuitsOnce ==
    /\ Len(quitLog) <= 1
    /\ hookResult \in {"none", "returned"}
    /\ hookResult = "returned" =>
          Len(quitLog) = (IF ctxDriver = Session THEN 1 ELSE 0)
    /\ hookResult = "none" => quitLog = <<>>

C19_Witness ==
    /\ hookResult = "returned"
    /\ ctxDriver = Session
    /\ quitLog = <<"WebDriverException">>

(***************************************************************************)
(* tap_login.                                                              *)
(***************************************************************************)
OpsOf(log) == [i \in 1..Len(log) |-> log[i].op]

ClicksIn(log) == Cardinality({i \in 1..Len(log) : log[i].op = "click"})

FirstWaitTimedOut ==
    /\ Len(tapLog) >= 1
    /\ tapLog[1].op = "wait"
    /\ tapLog[1].out = "TimeoutException"

SecondWaitSucceeded ==
    /\ Len(tapLog) >= 4
    /\ tapLog[4].op = "wait"
    /\ tapLog[4].out = "ok"

C13_TimeoutCapturesOnce ==
    (tapPc = "done" /\ tapResult = "TimeoutException") => Len(captures) = 1

(***************************************************************************)
(* step_compare_products.                                                  *)
(***************************************************************************)
Prefixes(log) == [i \in 1..Len(log) |-> log[i].prefix]

\* the robust flow got a list from get_all_product_titles that is shorter
\* than max(i1, i2), and the step has ended
InsufficientCase ==
    /\ cmpPc = "done"
    /\ RobustFlow(product_page)
    /\ ensureReturn # -1
    /\ titles.valid
    /\ Len(titles.titles) < Max(i1, i2)

StopsWithoutComparing ==
    /\ cmpResult = "AssertionError"
    /\ compareCalls = <<>>
    /\ ~compare_result.has

\* C14 as stated: in the robust flow, when get_all_product_titles returns
\* fewer than max(i1, i2) titles the step calls _capture_debug_artifacts
\* exactly once with prefix "compare_products_insufficient", raises
\* AssertionError, never calls compare_products and leaves
\* context.compare_result unset.
C14_Original ==
    InsufficientCase =>
        /\ Prefixes(captureLog) = <<"compare_products_insufficient">>
        /\ StopsWithoutComparing

\* C14 (amended): in the robust flow, when get_all_product_titles returns
\* fewer than max(i1, i2) titles the step raises AssertionError, never calls
\* compare_products and leaves context.compare_result unset; it calls
\* _capture_debug_artifacts exactly once, with prefix
\* "compare_products_insufficient", when the page has that method and not at
\* all when it has not.
C14_InsufficientTitlesStopTheStep ==
    InsufficientCase =>
        /\ Prefixes(captureLog) =
              IF HasCallable(product_page, "_capture_debug_artifacts")
              THEN <<"compare_products_insufficient">> ELSE <<>>
        /\ StopsWithoutComparing

C14_Witness ==
    /\ InsufficientCase
    /\ Len(captureLog) = 1
    /\ Len(titles.titles) = 1

\* the step reached one of its three delegation points
DelegationDue ==
    \/ ~RobustFlow(product_page) /\ HasCallable(product_page, "compare_products")
    \/ /\ RobustFlow(product_page) /\ ensureReturn # -1 /\ cmpPc \in {"comparing", "done"}
       /\ titles.valid /\ Len(titles.titles) >= Max(i1, i2)

NoTitleTwice(ts) == Cardinality(Elems(ts)) = Len(ts)

\* C16: with a real ProductPage, whenever ensure_minimum_products came back
\* with at least max(i1, i2) titles accumulated, the step goes on to call
\* compare_products and does not end with the AssertionError of the
\* "not enough items" test.  Stated for the runs in which no title was
\* accumulated twice, so that it does not rest on how repeated titles are
\* counted.
C16_EnoughAccumulatedMeansCompare ==
    (/\ cmpPc = "done"
     /\ product_page = RealPage
     /\ ensureReturn >= Max(i1, i2)
     /\ scrollLog # <<>>
     /\ NoTitleTwice(last_collected_titles.titles)) =>
        /\ cmpResult # "AssertionError"
        /\ Len(compareCalls) = 1

(***************************************************************************)
(* step_verify_home_screen.                                                *)
(***************************************************************************)
AllLocatorsTimedOut ==
    /\ Len(homeWaits) = Len(HomeLocators)
    /\ \A i \in 1..Len(homeWaits) : homeWaits[i].out = "TimeoutException"

\* C18: step_verify_home_screen waits for its candidate locators in listed
\* order and returns at the first one that becomes visible without trying
\* later ones; if none becomes visible it captures artifacts through
\* context.login_page._capture_debug_artifacts (when present) and then raises
\* TimeoutException.
C18_HomeScreenLocatorsInOrder ==
    /\ Len(homeWaits) <= Len(HomeLocators)
    /\ \A i \in 1..Len(homeWaits) :
          /\ homeWaits[i].locator = HomeLocators[i]
          /\ i < Len(homeWaits) => homeWaits[i].out = "TimeoutException"
    /\ (homeWaits # <<>> /\ homeWaits[Len(homeWaits)].out = "visible") =>
          /\ homePc = "done"
          /\ homeResult = "returned"
          /\ homeArtifacts = <<>>
    /\ homeResult = "returned" => homeWaits[Len(homeWaits)].out = "visible"
    /\ AllLocatorsTimedOut =>
          /\ homePc = "done"
          /\ homeResult = "TimeoutException"
          /\ (hasLoginPage /\ pageHasCapture) =>
                /\ Len(homeArtifacts) = 1
                /\ homeArtifacts[1].via = "login_page._capture_debug_artifacts"
          /\ ~(hasLoginPage /\ pageHasCapture) =>
                \A i \in 1..Len(homeArtifacts) :
                    homeArtifacts[i].via # "login_page._capture_debug_artifacts"

C18_Witness ==
    /\ AllLocatorsTimedOut
    /\ hasLoginPage
    /\ pageHasCapture
    /\ homeArtifacts # <<>>
    /\ homeArtifacts[1].out = "raises"
    /\ homeResult = "TimeoutException"

(***************************************************************************)
(* collect_product_titles: termination, stopping and the cache.            *)
(***************************************************************************)
FailedScrolls == { i \in 1..Len(scrollLog) : ~scrollLog[i] }

\* the number of scrolls is bounded and a failed scroll is the last thing
\* collect_product_titles does
ScrollsBoundedAndFailureFinal ==
    readLog # <<>> =>
        /\ Len(scrollLog) <= max_scrolls
        /\ pc = "loop" => (attempt < max_scrolls /\ FailedScrolls = {})
        /\ \A i \in FailedScrolls :
              /\ i = Len(scrollLog)
              /\ pc = "idle"
              /\ Len(readLog) = i
              /\ CollectedList = ConcatKept(readLog, i)
              /\ CollectedList = accumulated

\* C21: collect_product_titles always terminates: it calls _scroll_forward
\* at most max_scrolls times, and at the first call to _scroll_forward that
\* returns False it stops immediately, without reading the viewport again,
\* and returns what was accumulated so far.
C21_CollectTerminates ==
    /\ [](ScrollsBoundedAndFailureFinal)
    /\ (pc = "loop") ~> (pc = "idle")

C21_Witness ==
    /\ CollectRan
    /\ caller = "collect"
    /\ Len(scrollLog) >= 2
    /\ ~scrollLog[Len(scrollLog)]
    /\ outcome.titles # <<>>
    /\ Len(outcome.titles) < min_count

\* the accumulated list after the first n viewport reads
AccumulatedAfter(n) == ConcatKept(readLog, n)

\* C22: collect_product_titles stops as soon as the accumulated list has at
\* least min_count entries: if the initial viewport already satisfies
\* min_count no scroll is performed at all, and after the iteration in which
\* the threshold is reached no further scroll or viewport read happens.
C22_StopsAtMinCount ==
    readLog # <<>> =>
        /\ Len(AccumulatedAfter(1)) >= min_count =>
              /\ scrollLog = <<>>
              /\ Len(readLog) = 1
              /\ pc = "idle"
        /\ \A n \in 1..Len(readLog) :
              Len(AccumulatedAfter(n)) >= min_count =>
                  /\ n = Len(readLog)
                  /\ Len(scrollLog) = n - 1
                  /\ pc = "idle"
                  /\ CollectedList = AccumulatedAfter(n)

C22_Witness ==
    /\ CollectRan
    /\ caller = "collect"
    /\ Len(readLog) = 3
    /\ max_scrolls > 2
    /\ Len(AccumulatedAfter(2)) < min_count
    /\ Len(AccumulatedAfter(3)) >= min_count

\* which return path of collect_product_titles was taken
ReturnPath ==
    IF scrollLog = <<>> THEN "initial"
    ELSE IF ~scrollLog[Len(scrollLog)] THEN "scroll failure"
    ELSE IF Len(accumulated) >= min_count THEN "after scroll"
    ELSE IF consecutive_no_new >= 2 THEN "two empty scrolls"
    ELSE "max_scrolls"

\* C23: on every return path of collect_product_titles,
\* _last_collected_titles is set to a list equal to the returned list,
\* replacing any previous cache rather than extending it; until the return
\* the previous cache stays as it was.
C23_CacheIsTheReturnedList ==
    readLog # <<>> =>
        /\ pc = "loop" => last_collected_titles = cacheAtCall
        /\ pc = "idle" =>
              /\ ReturnPath \in {"initial", "scroll failure", "after scroll",
                                 "two empty scrolls", "max_scrolls"}
              /\ last_collected_titles = Cache(accumulated)
              /\ caller = "collect" =>
                    outcome = ReturnTitles(last_collected_titles.titles)
              /\ caller = "ensure" =>
                    outcome = ReturnCount(Len(last_collected_titles.titles))
              /\ caller = "compare" => usedTitles = last_collected_titles.titles

C23_Witness ==
    /\ CollectRan
    /\ caller = "collect"
    /\ cacheAtCall.has
    /\ cacheAtCall.titles # <<>>
    /\ ReturnPath = "two empty scrolls"
    /\ outcome.titles # <<>>
    /\ ~IsPrefix(cacheAtCall.titles, outcome.titles)

(***************************************************************************)
(* get_all_product_titles.                                                 *)
(***************************************************************************)
\* "Products", "Product" or nothing but blanks, in any letter case
PlainHeaderText(t) ==
    Lower(Strip(t)) \in { <<>>, <<"p","r","o","d","u","c","t","s">>,
                          <<"p","r","o","d","u","c","t">> }

StrippedAll(ts) == [i \in 1..Len(ts) |-> Strip(ts[i])]

NonHeaderTexts(ts) == SelectSeq(StrippedAll(ts), LAMBDA t : ~PlainHeaderText(t))

DirectLookupUnusable(tv) ==
    tv = <<>> \/ (Len(tv) = 1 /\ PlainHeaderText(tv[1]))

Yielding(xp) == { i \in 1..Len(xp) : NonHeaderTexts(xp[i]) # <<>> }

FirstYielding(xp) == CHOOSE i \in Yielding(xp) : \A j \in Yielding(xp) : i <= j

NonBlank(ts) == SelectSeq(StrippedAll(ts), LAMBDA t : t # <<>>)

\* the title an image element gives: its own text, else the first
\* non-blank text near it, else nothing
FromImage(img) ==
    IF Strip(img.text) # <<>> THEN Strip(img.text)
    ELSE IF NonBlank(img.rel) # <<>> THEN NonBlank(img.rel)[1]
    ELSE <<>>

\* the hybrid mapping: enough valid title texts are taken as they are,
\* otherwise position i gets title text i when valid and the text of
\* image i when not
HybridResult(tv2, img) ==
    IF Len(NonHeaderTexts(tv2)) >= Len(img)
    THEN SubSeq(NonHeaderTexts(tv2), 1, Len(img))
    ELSE [i \in 1..Len(img) |->
            IF i <= Len(tv2) /\ ~PlainHeaderText(tv2[i])
            THEN Strip(tv2[i]) ELSE FromImage(img[i])]

\* C24: get_all_product_titles returns the texts of the direct ID lookup
\* unless that lookup is empty or a single header-like text; in the fallback
\* it returns [] when no product image is found, otherwise the non-header
\* texts of the first global XPath candidate (in listed order) that yields
\* any, and only when no candidate yields any does it use the index-based
\* hybrid mapping over title and image elements.
C24_GetAllStrategyOrder ==
    getAllPc = "done" =>
        getAllResult =
            IF ~DirectLookupUnusable(driverShows.tv) THEN driverShows.tv
            ELSE IF driverShows.img = <<>> THEN <<>>
            ELSE IF Yielding(driverShows.xp) # {}
                 THEN NonHeaderTexts(driverShows.xp[FirstYielding(driverShows.xp)])
                 ELSE HybridResult(driverShows.tv2, driverShows.img)

\* the hybrid mapping was used and took one title from a title element and
\* one from an image
C24_Witness ==
    /\ getAllPc = "done"
    /\ DirectLookupUnusable(driverShows.tv)
    /\ driverShows.img # <<>>
    /\ Yielding(driverShows.xp) = {}
    /\ driverShows.tv2 # driverShows.tv
    /\ getAllResult = << <<"P", "2">>, tP1 >>

\* C27: compare_products(a, b) returns a result record only when both a and
\* b lie in 0..len(titles)-1 of the title list it used; for any index
\* outside that range, including a negative index, it raises IndexError.
C27_CompareRejectsIndexOutOfRange ==
    (caller = "compare" /\ pc = "idle") =>
        /\ outcome.kind \in {"record", "IndexError"}
        /\ outcome.kind = "record" <=>
              /\ index_a \in 0..(Len(usedTitles) - 1)
              /\ index_b \in 0..(Len(usedTitles) - 1)

\* positions in pageCalls where the menu fallback was entered
FallbackStarts ==
    { i \in 1..Len(pageCalls) :
         pageCalls[i].method \in {"open_menu", "login_via_menu"} }

Raises == { i \in 1..Len(pageCalls) : pageCalls[i].out # "ok" }

\* C28: the menu fallback of step_enter_credentials and step_logged_in is
\* attempted at most once per step invocation and only in response to a
\* TimeoutException from the direct attempt: any other exception from the
\* direct attempt propagates without menu navigation, and any exception
\* raised during the fallback propagates to the caller without a further
\* retry.
C28_FallbackOnceOnlyOnTimeout ==
    /\ Cardinality(FallbackStarts) <= 1
    /\ \A i \in FallbackStarts :
          /\ i > 1
          /\ pageCalls[i - 1].out = "TimeoutException"
          /\ \A j \in 1..(i - 2) : pageCalls[j].out = "ok"
    /\ \A k \in Raises :
          \/ /\ pageCalls[k].out = "TimeoutException"
             /\ \A i \in FallbackStarts : k < i
             /\ stepPhase = "fallback" \/ k + 1 \in FallbackStarts
          \/ /\ k = Len(pageCalls)
             /\ stepPhase = "done"
             /\ stepResult = pageCalls[k].out
    /\ Cardinality(Raises) <= 2

C28_Witness ==
    /\ stepName = "logged_in"
    /\ stepPhase = "done"
    /\ Len(pageCalls) = 2
    /\ pageCalls[2].method = "login_via_menu"
    /\ pageCalls[2].out = "TimeoutException"
    /\ stepResult = "TimeoutException"

(***************************************************************************)
(* LoginPage.login and login_via_menu.                                     *)
(***************************************************************************)
MenuLoginOrder ==
    <<"open_menu", "open_login_from_menu", "enter_username", "enter_password",
      "tap_login">>

PlainLoginOrder == <<"enter_username", "enter_password", "tap_login">>

OrderOf(m) == IF m = "login_via_menu" THEN MenuLoginOrder ELSE PlainLoginOrder

RankIn(order, p) == CHOOSE i \in 1..Len(order) : order[i] = p

\* an interaction whose exception leaves the primitive
RaisingEvent(e) == e.out # "ok" /\ e.op \notin {"clear", "hide_keyboard"}

\* the primitive p clicked its element or typed its text
Completed(p) ==
    \E i \in 1..Len(lpLog) :
        /\ lpLog[i].method = p
        /\ lpLog[i].op \in {"click", "send_keys"}
        /\ lpLog[i].out = "ok"

AllBeforeCompleted(order, p) ==
    \A r \in 1..(RankIn(order, p) - 1) : Completed(order[r])

MenuItemWaitTimedOut ==
    \E i \in 1..Len(lpLog) :
        lpLog[i] = PageEvent("open_login_from_menu", "wait", "TimeoutException")

\* C25: login runs enter_username, enter_password, tap_login in this order,
\* login_via_menu runs the click of the menu button and the click of the
\* "Log In" item before them; a primitive starts only after every earlier
\* one has done its click or typing, nothing follows a raising interaction
\* but the hiding of the keyboard by the same primitive, and once the wait
\* for the menu item has timed out no part of login runs.
C25_LoginRunsPrimitivesInOrder ==
    lpMethod \in {"login", "login_via_menu"} =>
        LET order == OrderOf(lpMethod) IN
        /\ \A j \in 1..Len(lpLog) :
              /\ \E r \in 1..Len(order) : order[r] = lpLog[j].method
              /\ AllBeforeCompleted(order, lpLog[j].method)
              /\ \A i \in 1..(j - 1) :
                    /\ RankIn(order, lpLog[i].method) <= RankIn(order, lpLog[j].method)
                    /\ RaisingEvent(lpLog[i]) =>
                          /\ lpLog[j].method = lpLog[i].method
                          /\ lpLog[j].op = "hide_keyboard"
        /\ tapLog # <<>> =>
              /\ AllBeforeCompleted(order, "tap_login")
              /\ \A i \in 1..Len(lpLog) : ~RaisingEvent(lpLog[i])
        /\ MenuItemWaitTimedOut =>
              /\ tapLog = <<>>
              /\ \A i \in 1..Len(lpLog) :
                    lpLog[i].method \in {"open_menu", "open_login_from_menu"}
        /\ lpResult = "returned" => tapResult = "returned"

C25_Witness ==
    /\ lpMethod = "login_via_menu"
    /\ lpResult = "returned"
    /\ tapLog # <<>>
    /\ Completed("open_menu") /\ Completed("enter_password")

\* the call of enter_username / enter_password has ended
EnterFieldEnded ==
    /\ lpMethod \in {"enter_username", "enter_password"}
    /\ lpResult # "none"

\* C26: enter_username and enter_password attempt to hide the keyboard at
\* the end on every exit path: the last driver interaction of an ended call
\* is hide_keyboard.
C26_KeyboardHiddenOnEveryExit ==
    EnterFieldEnded => lpLog[Len(lpLog)].op = "hide_keyboard"

\* the single wait of enter_username / enter_password timed out
EnterFieldWaitTimedOut ==
    /\ lpMethod \in {"enter_username", "enter_password"}
    /\ lpLog # <<>>
    /\ lpLog[1] = PageEvent(lpMethod, "wait", "TimeoutException")

\* C29: a timed-out wait of enter_username, enter_password or of the menu
\* item of login_via_menu is followed by exactly one capture of debug
\* artifacts before the TimeoutException reaches the caller.
C29_OneCapturePerTimedOutWait ==
    ( /\ lpResult = "TimeoutException"
      /\ \/ EnterFieldWaitTimedOut
         \/ lpMethod = "login_via_menu" /\ MenuItemWaitTimedOut )
    => Len(lpCaptures) = 1

(***************************************************************************)
(* The page objects of the context.                                        *)
(***************************************************************************)
\* the page object was built while context.driver was set
BuiltFromSetDriver(d) == d # "absent"

\* C30: a page object stored in the context was built from a context.driver
\* that was set: login_page only together with the driver of step_open_app,
\* both wrapping the same session; product_page never from a missing
\* driver.  step_app_on_products ends with RuntimeError and stores nothing
\* while context.driver is absent, and step_logged_in ends with RuntimeError
\* before any call on the page while context.login_page is absent.
C30_PageObjectsWrapASetDriver ==
    /\ hasLoginPage =>
          /\ ctxDriver = Session
          /\ loginPageDriver = ctxDriver
    /\ hasProductPage => BuiltFromSetDriver(productPageDriver)
    /\ ~hasProductPage => productPageDriver = "absent"
    /\ (ctxDriver = "absent" /\ pageStep = "app_on_products") =>
          /\ pageStepResult = "RuntimeError"
          /\ ~hasProductPage
    /\ (~hasLoginPage /\ stepName = "logged_in") =>
          /\ stepPhase = "done"
          /\ stepResult = "RuntimeError"
          /\ pageCalls = <<>>

C30_Witness ==
    /\ hasLoginPage
    /\ hasProductPage
    /\ productPageDriver = Session
    /\ pageStep = "app_on_products"
    /\ stepName = "logged_in"
    /\ stepResult = "ok"

====
